---- MODULE Spec2Model ----
(***************************************************************************)
(* Model of the lunch-picker search API (apps/api/src/index.ts) and of the *)
(* stand-alone token-bucket limiter (apps/api/src/rateLimiter.ts).         *)
(*                                                                         *)
(* Numbers.  Time is in integer milliseconds.  A bucket's token count is a *)
(* real number in the code; here it is kept exactly, in units of           *)
(* 1/intervalMs of a token, so that                                        *)
(*     refill  = elapsed / intervalMs * capacity  ==  elapsed * capacity   *)
(*     1 token                                    ==  intervalMs units     *)
(* and every comparison and ceiling of the code is computed on integers.   *)
(***************************************************************************)
EXTENDS Integers, Sequences, FiniteSets, TLC

VARIABLES
    clock,        \* Date.now(), in ms
    libStore,     \* the Map inside createInMemoryCache() of rateLimiter.ts
    store,        \* the Map inside inMemoryCache of index.ts
    libRes,       \* per key: what the last createRateLimiter.consume returned
    apiRes,       \* per key: what the last consumeToken returned
    run,          \* per key: calls made since a call found no bucket
    firstDenied,  \* per key: first denied call since the last allowed one
    prevRes,      \* per key: the call before the last one
    ticks,        \* number of clock advances so far
    calls,        \* number of limiter calls so far
    keyIn,        \* two request bodies given to safeParseBody and buildCacheKey
    keyOut,       \* the two cache keys built from them
    fnIn,         \* the argument given to the function a specification applies
    fnOut,        \* what the function returned
    apiKey,       \* whether GOOGLE_PLACES_API_KEY is configured
    pc,           \* per request slot: where the /api/search handler stands
    work,         \* per request slot: the handler's request and locals
    resp,         \* per request slot: the response sent
    path,         \* per request slot: the stages the request went through
    ops,          \* per request slot: store and upstream operations it made
    prevOk,       \* the last 200 response sent before the current request
    served,       \* per rate-limit key: requests since one found no bucket
    nreq,         \* number of requests received
    serial        \* the limiter's answers had each consumeToken run alone

limVars == <<libStore, libRes, apiRes, run, firstDenied, prevRes, calls>>
keyVars == <<keyIn, keyOut, fnIn, fnOut>>
srvVars == <<apiKey, pc, work, resp, path, ops, prevOk, served, nreq, serial>>
vars == <<clock, store, ticks, limVars, keyVars, srvVars>>

----------------------------------------------------------------------------
(* Program constants *)

RATE_LIMIT_CAPACITY == 10
RATE_LIMIT_INTERVAL_MS == 60000
SEARCH_CACHE_TTL == 600
MOCK_CACHE_TTL == 120
BUCKET_TTL == 120

(* The configuration rateLimiter.spec.ts gives createRateLimiter *)
LimiterCapacity == 10
LimiterIntervalMs == 60000
LimiterBucketTtlSeconds == 120

(* Bounds of the model *)
MaxTicks == 3
MaxCalls == 13

----------------------------------------------------------------------------
(* JavaScript values that reach the bucket arithmetic *)

Num(n) == [k |-> "number", n |-> n]
NaN == [k |-> "NaN"]
Null == [k |-> "null"]
Undefined == [k |-> "undefined"]

IsNumber(x) == x.k = "number"

(* ToNumber: null -> 0, undefined -> NaN *)
ToNumber(x) ==
    CASE x.k = "number" -> x
      [] x.k = "null" -> Num(0)
      [] OTHER -> NaN

JsAdd(a, b) ==
    LET x == ToNumber(a)
        y == ToNumber(b)
    IN  IF IsNumber(x) /\ IsNumber(y) THEN Num(x.n + y.n) ELSE NaN

JsSub(a, b) ==
    LET x == ToNumber(a)
        y == ToNumber(b)
    IN  IF IsNumber(x) /\ IsNumber(y) THEN Num(x.n - y.n) ELSE NaN

JsMul(a, b) ==
    LET x == ToNumber(a)
        y == ToNumber(b)
    IN  IF IsNumber(x) /\ IsNumber(y) THEN Num(x.n * y.n) ELSE NaN

(* Math.min: NaN when either argument is NaN *)
MathMin(a, b) ==
    LET x == ToNumber(a)
        y == ToNumber(b)
    IN  IF IsNumber(x) /\ IsNumber(y)
        THEN (IF x.n <= y.n THEN x ELSE y)
        ELSE NaN

(* a < b: false when either side is NaN *)
JsLess(a, b) ==
    LET x == ToNumber(a)
        y == ToNumber(b)
    IN  IsNumber(x) /\ IsNumber(y) /\ x.n < y.n

(* Math.ceil(p / q) for q > 0 *)
CeilDiv(p, q) == -((-p) \div q)

----------------------------------------------------------------------------
(* JSON text.  A stored string is either the JSON text of a value or text  *)
(* that JSON.parse rejects.                                                *)

Garbage == [text |-> "garbage"]
JsonText(v) == [json |-> v]
IsJson(s) == DOMAIN s = {"json"}

(* JSON.stringify of a number: NaN is written as null *)
JsonNumber(x) == IF x.k = "NaN" THEN Null ELSE x

(* JSON.stringify({ tokens, updatedAt }) *)
StringifyBucket(tokens, updatedAt) ==
    JsonText([tokens |-> JsonNumber(tokens), updatedAt |-> JsonNumber(updatedAt)])

(* if (existing): null is falsy, an object is truthy *)
Truthy(v) == v # Null

----------------------------------------------------------------------------
(* createInMemoryCache: a Map key -> { value, expiresAt }                  *)

NoExpiry == -1
EmptyStore == <<>>

Has(st, key) == key \in DOMAIN st

Remove(st, key) == [x \in (DOMAIN st) \ {key} |-> st[x]]

(* Mutant: an entry still counts as live at the instant it expires *)
Expired_Strict(st, key, t) ==
    /\ Has(st, key)
    /\ st[key].expiresAt # NoExpiry
    /\ st[key].expiresAt # 0
    /\ st[key].expiresAt < t

(* entry.expiresAt && entry.expiresAt <= Date.now() *)
Expired(st, key, t) ==
    /\ Has(st, key)
    /\ st[key].expiresAt # NoExpiry
    /\ st[key].expiresAt # 0
    /\ st[key].expiresAt <= t

(* get(key, { type: 'json' }): the store after the call *)
CacheGetStore(st, key, t) == IF Expired(st, key, t) THEN Remove(st, key) ELSE st

(* get(key, { type: 'json' }): the value returned *)
CacheGetJson(st, key, t) ==
    IF ~Has(st, key) \/ Expired(st, key, t) THEN Null
    ELSE IF IsJson(st[key].value) THEN st[key].value.json
    ELSE Null

(* Mutant: expirationTtl taken as milliseconds *)
CachePut_TtlAsMs(st, key, value, ttl, t) ==
    LET expiresAt == IF ttl # 0 THEN t + ttl ELSE NoExpiry
        rec == [value |-> value, expiresAt |-> expiresAt]
    IN  [x \in (DOMAIN st) \cup {key} |-> IF x = key THEN rec ELSE st[x]]

(* put(key, value, { expirationTtl }) *)
CachePut(st, key, value, ttl, t) ==
    LET expiresAt == IF ttl # 0 THEN t + ttl * 1000 ELSE NoExpiry
        rec == [value |-> value, expiresAt |-> expiresAt]
    IN  [x \in (DOMAIN st) \cup {key} |-> IF x = key THEN rec ELSE st[x]]

----------------------------------------------------------------------------
(* Token bucket *)

(* Mutant: one bucket for every client *)
BucketKey_Shared(key) == <<"ratelimit", <<"ip", "anonymous">>>>

(* `ratelimit:${key}` *)
BucketKey(key) == <<"ratelimit", key>>

(* ---- rateLimiter.ts: createRateLimiter(config).consume ---- *)

(* Mutant: the refill replaces the stored tokens instead of adding to them *)
LimiterRefilled_Replace(existing, t) ==
    IF Truthy(existing)
    THEN LET elapsed == JsSub(Num(t), existing.updatedAt)
             refill == JsMul(elapsed, Num(LimiterCapacity))
         IN  MathMin(Num(LimiterCapacity * LimiterIntervalMs), refill)
    ELSE Num(LimiterCapacity * LimiterIntervalMs)

(* tokens after the refill: capacity for an absent bucket, else            *)
(* Math.min(capacity, existing.tokens + (elapsed / intervalMs) * capacity) *)
LimiterRefilled(existing, t) ==
    IF Truthy(existing)
    THEN LET elapsed == JsSub(Num(t), existing.updatedAt)
             refill == JsMul(elapsed, Num(LimiterCapacity))
         IN  MathMin(Num(LimiterCapacity * LimiterIntervalMs),
                     JsAdd(existing.tokens, refill))
    ELSE Num(LimiterCapacity * LimiterIntervalMs)

(* Mutant: the test written as tokens <= 1 *)
LimiterDenied_OffByOne(tokens) == ~JsLess(Num(LimiterIntervalMs), tokens)

(* if (tokens < 1) *)
LimiterDenied(tokens) == JsLess(tokens, Num(LimiterIntervalMs))

(* Mutant: the wait for a whole token, whatever the bucket holds *)
LimiterRetryAfter_WholeToken(tokens) ==
    CeilDiv(LimiterIntervalMs, LimiterCapacity * 1000)

(* Math.ceil(((1 - tokens) / capacity) * intervalMs / 1000) *)
LimiterRetryAfter(tokens) ==
    CeilDiv(LimiterIntervalMs - tokens.n, LimiterCapacity * 1000)

(* consume(key): now() = t, the store's Date.now() = t as well *)
LimiterConsume(st, key, t) ==
    LET existing == CacheGetJson(st, BucketKey(key), t)
        st1 == CacheGetStore(st, BucketKey(key), t)
        tokens == LimiterRefilled(existing, t)
        updatedAt == Num(t)
    IN  IF LimiterDenied(tokens)
        THEN [store |-> CachePut(st1, BucketKey(key), StringifyBucket(tokens, updatedAt),
                                 LimiterBucketTtlSeconds, t),
              allowed |-> FALSE,
              retryAfterSeconds |-> LimiterRetryAfter(tokens)]
        ELSE [store |-> CachePut(st1, BucketKey(key),
                                 StringifyBucket(JsSub(tokens, Num(LimiterIntervalMs)),
                                                 updatedAt),
                                 LimiterBucketTtlSeconds, t),
              allowed |-> TRUE,
              retryAfterSeconds |-> 0]

(* ---- index.ts: consumeToken ---- *)

(* Mutant: the refill replaces the stored tokens instead of adding to them *)
TokenRefilled_RefillOnly(existing, t) ==
    IF Truthy(existing)
    THEN LET elapsed == JsSub(Num(t), existing.updatedAt)
             refill == JsMul(elapsed, Num(RATE_LIMIT_CAPACITY))
         IN  MathMin(Num(RATE_LIMIT_CAPACITY * RATE_LIMIT_INTERVAL_MS), refill)
    ELSE Num(RATE_LIMIT_CAPACITY * RATE_LIMIT_INTERVAL_MS)

(* Math.min(capacity, existing.tokens + (elapsed / INTERVAL) * capacity)   *)
TokenRefilled(existing, t) ==
    IF Truthy(existing)
    THEN LET elapsed == JsSub(Num(t), existing.updatedAt)
             refill == JsMul(elapsed, Num(RATE_LIMIT_CAPACITY))
         IN  MathMin(Num(RATE_LIMIT_CAPACITY * RATE_LIMIT_INTERVAL_MS),
                     JsAdd(existing.tokens, refill))
    ELSE Num(RATE_LIMIT_CAPACITY * RATE_LIMIT_INTERVAL_MS)

(* Math.ceil(RATE_LIMIT_INTERVAL_MS / capacity / 1000) *)
TokenRetryAfter == CeilDiv(RATE_LIMIT_INTERVAL_MS, RATE_LIMIT_CAPACITY * 1000)

(* Mutant: a denied call returns without writing the bucket back *)
ConsumeTokenWrite_SkipDenied(st, key, existing, t, tput) ==
    LET tokens == TokenRefilled(existing, t)
        updatedAt == Num(t)
    IN  IF JsLess(tokens, Num(RATE_LIMIT_INTERVAL_MS))
        THEN [store |-> st,
              allowed |-> FALSE,
              retryAfterSeconds |-> TokenRetryAfter]
        ELSE [store |-> CachePut(st, BucketKey(key),
                                 StringifyBucket(JsSub(tokens, Num(RATE_LIMIT_INTERVAL_MS)),
                                                 updatedAt),
                                 BUCKET_TTL, tput),
              allowed |-> TRUE,
              retryAfterSeconds |-> 0]

(* consumeToken after its await of cache.get: existing is what get         *)
(* returned, t the Date.now() sampled before the read, tput the Date.now() *)
(* of the put.                                                             *)
ConsumeTokenWrite(st, key, existing, t, tput) ==
    LET tokens == TokenRefilled(existing, t)
        updatedAt == Num(t)
    IN  IF JsLess(tokens, Num(RATE_LIMIT_INTERVAL_MS))
        THEN [store |-> CachePut(st, BucketKey(key), StringifyBucket(tokens, updatedAt),
                                 BUCKET_TTL, tput),
              allowed |-> FALSE,
              retryAfterSeconds |-> TokenRetryAfter]
        ELSE [store |-> CachePut(st, BucketKey(key),
                                 StringifyBucket(JsSub(tokens, Num(RATE_LIMIT_INTERVAL_MS)),
                                                 updatedAt),
                                 BUCKET_TTL, tput),
              allowed |-> TRUE,
              retryAfterSeconds |-> 0]

(* consumeToken(cache, key) run without interruption at time t *)
consumeToken(st, key, t) ==
    ConsumeTokenWrite(CacheGetStore(st, BucketKey(key), t), key,
                      CacheGetJson(st, BucketKey(key), t), t, t)

----------------------------------------------------------------------------
(* Strings that are compared, sorted or joined are sequences of UTF-16     *)
(* code units.                                                             *)

Comma == 44

(* String.prototype.toLowerCase on A-Z *)
LowerCode(c) == IF c >= 65 /\ c <= 90 THEN c + 32 ELSE c
ToLowerCase(w) == [i \in 1..Len(w) |-> LowerCode(w[i])]

(* a < b by code units, as Array.prototype.sort compares strings *)
RECURSIVE StringLess(_, _)
StringLess(a, b) ==
    IF b = <<>> THEN FALSE
    ELSE IF a = <<>> THEN TRUE
    ELSE IF Head(a) # Head(b) THEN Head(a) < Head(b)
    ELSE StringLess(Tail(a), Tail(b))

RECURSIVE InsertSorted(_, _)
InsertSorted(w, sorted) ==
    IF sorted = <<>> THEN <<w>>
    ELSE IF StringLess(w, Head(sorted)) THEN <<w>> \o sorted
    ELSE <<Head(sorted)>> \o InsertSorted(w, Tail(sorted))

(* [...list].sort() *)
RECURSIVE SortStrings(_)
SortStrings(list) ==
    IF list = <<>> THEN <<>>
    ELSE InsertSorted(Head(list), SortStrings(Tail(list)))

(* list.join(',') *)
RECURSIVE JoinComma(_)
JoinComma(list) ==
    IF list = <<>> THEN <<>>
    ELSE IF Len(list) = 1 THEN Head(list)
    ELSE Head(list) \o <<Comma>> \o JoinComma(Tail(list))

(* list.filter(Boolean): the empty string is dropped *)
RECURSIVE FilterNonEmpty(_)
FilterNonEmpty(list) ==
    IF list = <<>> THEN <<>>
    ELSE IF Head(list) = <<>> THEN FilterNonEmpty(Tail(list))
    ELSE <<Head(list)>> \o FilterNonEmpty(Tail(list))

----------------------------------------------------------------------------
(* Request bodies.  Coordinates are in units of 0.00001 degree; a field    *)
(* of the JSON body is Num(n), Undefined when missing, or Text when it is  *)
(* a string.                                                               *)

Text == [k |-> "string"]
MalformedBody == [malformed |-> TRUE]
IsMalformed(body) == DOMAIN body = {"malformed"}

NoBudget == [none |-> TRUE]

Abs(x) == IF x < 0 THEN -x ELSE x
Min(a, b) == IF a <= b THEN a ELSE b
Max(a, b) == IF a >= b THEN a ELSE b


(* Numbers JSON.parse can return besides the whole ones: one that is not  *)
(* whole, lying strictly between floor and floor + 1, and the infinities   *)
(* that literals such as 1e999 and -1e999 overflow to.                     *)
Frac(floor) == [k |-> "fraction", floor |-> floor]
PlusInfinity == [k |-> "Infinity", negative |-> FALSE]
MinusInfinity == [k |-> "Infinity", negative |-> TRUE]

(* typeof x === 'number' *)
TypeofNumber(x) == x.k \in {"number", "fraction", "Infinity", "NaN"}

(* Number.isFinite *)
IsFinite(x) == x.k \in {"number", "fraction"}

(* x <= m and x >= m for a whole number m *)
AtMost(x, m) ==
    CASE x.k = "number" -> x.n <= m
      [] x.k = "fraction" -> x.floor < m
      [] x.k = "Infinity" -> x.negative
      [] OTHER -> FALSE

AtLeast(x, m) ==
    CASE x.k = "number" -> x.n >= m
      [] x.k = "fraction" -> x.floor >= m
      [] x.k = "Infinity" -> ~x.negative
      [] OTHER -> FALSE

(* Math.min(x, m) and Math.max(x, m) for a whole number m: the argument is *)
(* converted to a number, a string that is not numeric giving NaN          *)
MinWith(x, m) ==
    IF ~TypeofNumber(x) \/ x.k = "NaN" THEN NaN
    ELSE IF AtMost(x, m) THEN x ELSE Num(m)

MaxWith(x, m) ==
    IF ~TypeofNumber(x) \/ x.k = "NaN" THEN NaN
    ELSE IF AtLeast(x, m) THEN x ELSE Num(m)

(* clamp(value, min, max): Math.min(max, Math.max(min, value)) *)
clamp(value, min, max) == MinWith(MaxWith(value, min), max)

(* value ?? fallback *)
Nullish(x) == x.k \in {"null", "undefined"}

(* safeParseBody *)
safeParseBody(body) ==
    IF IsMalformed(body)
    THEN [ok |-> FALSE, error |-> "Invalid JSON payload"]
    ELSE IF ~TypeofNumber(body.lat) \/ ~TypeofNumber(body.lng)
    THEN [ok |-> FALSE, error |-> "location.lat and location.lng are required numbers."]
    ELSE IF ~TypeofNumber(body.radius_m) \/ body.radius_m.k = "NaN"
            \/ AtMost(body.radius_m, 0)
    THEN [ok |-> FALSE, error |-> "radius_m must be a positive number."]
    ELSE [ok |-> TRUE,
          value |-> [lat |-> body.lat,
                     lng |-> body.lng,
                     radius_m |-> MinWith(body.radius_m, 50000),
                     cuisine |-> FilterNonEmpty(
                                    [i \in 1..Len(body.cuisine) |->
                                        ToLowerCase(body.cuisine[i])]),
                     budget |-> body.budget,
                     limit |-> clamp(IF Nullish(body.limit) THEN Num(5) ELSE body.limit,
                                     1, 20)]]

(* Number.prototype.toFixed(4): the sign, and the magnitude rounded to the *)
(* nearest 0.0001 (the larger one on a tie)                                *)
ToFixed4(x) ==
    IF IsNumber(x)
    THEN [negative |-> x.n < 0, tenThousandths |-> (Abs(x.n) + 5) \div 10]
    ELSE [negative |-> x.negative, text |-> "Infinity"]

(* Mutant: the cuisine list joined in the order it was sent *)
buildCacheKey_Unsorted(req) ==
    <<"search", ToFixed4(req.lat), ToFixed4(req.lng), req.radius_m,
      JoinComma(req.cuisine),
      IF req.budget = NoBudget THEN [sentinel |-> "none"] ELSE [number |-> req.budget.max]>>

(* buildCacheKey: `search:${lat}:${lng}:${radius_m}:${cuisineKey}:${budgetKey}` *)
buildCacheKey(req) ==
    <<"search", ToFixed4(req.lat), ToFixed4(req.lng), req.radius_m,
      JoinComma(SortStrings(req.cuisine)),
      IF req.budget = NoBudget THEN [sentinel |-> "none"] ELSE [number |-> req.budget.max]>>

----------------------------------------------------------------------------
(* Places and results.  A rating is in tenths, a score in thousandths, a   *)
(* distance in metres.  A place carries the great-circle distance of its   *)
(* coordinate from the request origin (what haversineMeters returns for    *)
(* it), or Undefined when it has no coordinate.                            *)

None == [none |-> TRUE]
Some(x) == [some |-> x]

(* priceToScore *)
priceToScore(priceLevel) ==
    CASE priceLevel = "PRICE_LEVEL_FREE" -> 1000
      [] priceLevel = "PRICE_LEVEL_INEXPENSIVE" -> 900
      [] priceLevel = "PRICE_LEVEL_MODERATE" -> 700
      [] priceLevel = "PRICE_LEVEL_EXPENSIVE" -> 400
      [] priceLevel = "PRICE_LEVEL_VERY_EXPENSIVE" -> 200
      [] OTHER -> 600

(* Mutant: the distance component is not cut off at the radius *)
computeFitScore_NoClamp(rating, distance, radius, priceLevel, openNow) ==
    LET ratingScore == IF IsNumber(rating) /\ rating.n # 0 THEN rating.n * 20 ELSE 600
        r == Max(radius, 1)
        priceScore == priceToScore(priceLevel)
        openScore == IF openNow = "null" THEN 500
                     ELSE IF openNow = "true" THEN 1000 ELSE 0
        weighted == ratingScore * 4 + priceScore * 2 + openScore
        numerator == weighted * r + 3000 * (r - distance)
    IN  (2 * numerator + 10 * r) \div (20 * r)

(* computeFitScore: Math.round(composite * 1000) / 1000, in thousandths    *)
computeFitScore(rating, distance, radius, priceLevel, openNow) ==
    LET ratingScore == IF IsNumber(rating) /\ rating.n # 0 THEN rating.n * 20 ELSE 600
        r == Max(radius, 1)
        priceScore == priceToScore(priceLevel)
        openScore == IF openNow = "null" THEN 500
                     ELSE IF openNow = "true" THEN 1000 ELSE 0
        \* composite * 1000 = weighted / 10 + 300 * (r - min(r, distance)) / r
        weighted == ratingScore * 4 + priceScore * 2 + openScore
        numerator == weighted * r + 3000 * (r - Min(r, distance))
    IN  (2 * numerator + 10 * r) \div (20 * r)

(* haversineMeters on coordinates in 1e-5 degrees.  The model's points lie  *)
(* on one meridian: with dLon = 0 the formula reduces to a = sin(dLat/2)^2 *)
(* and c = |dLat| in radians, so the result is Math.round(R * |dLat|),     *)
(* 1.111949 m for each 1e-5 degree.  A coordinate that is not finite makes *)
(* dLat or its sine NaN, and so the result.                                *)
haversineMeters(lat1, lon1, lat2, lon2) ==
    CASE ~(IsNumber(lat1) /\ IsNumber(lon1) /\ IsNumber(lat2) /\ IsNumber(lon2)) -> NaN
      [] IsNumber(lat1) /\ IsNumber(lat2) /\ IsNumber(lon1) /\ lon1 = lon2 ->
            Num((2 * Abs(lat2.n - lat1.n) * 1111949 + 1000000) \div 2000000)

HasLocation(place) == "location" \in DOMAIN place

(* Mutant: a place without a coordinate is placed at the edge of the radius *)
placeDistance_EdgeOfRadius(place, req) ==
    IF HasLocation(place)
    THEN haversineMeters(req.lat, req.lng, place.location.latitude,
                         place.location.longitude)
    ELSE req.radius_m

(* buildSearchResult: place.location?.latitude ?? req.location.lat, the    *)
(* same for the longitude, and haversineMeters from the request origin     *)
placeDistance(place, req) ==
    LET lat == IF HasLocation(place) THEN place.location.latitude ELSE req.lat
        lng == IF HasLocation(place) THEN place.location.longitude ELSE req.lng
    IN  haversineMeters(req.lat, req.lng, lat, lng)

(* buildSearchResult.  A place of the model has a location, or no          *)
(* coordinate, or stands for one whose distance from the origin is given.  *)
buildSearchResult(place, req) ==
    LET distance == IF IsNumber(place.distance) THEN place.distance.n
                    ELSE placeDistance(place, req).n
        rating == IF IsNumber(place.rating) THEN place.rating ELSE Null
    IN  [place_id |-> place.id,
         name |-> IF place.name = None THEN [text |-> "Unknown place"] ELSE place.name,
         rating |-> rating,
         distance_m |-> distance,
         price_level |-> place.priceLevel,
         open_now |-> place.openNow,
         fit_score |-> computeFitScore(rating, distance, req.radius_m.n,
                                       place.priceLevel, place.openNow)]

(* String.prototype.includes *)
Includes(hay, needle) ==
    \E i \in 0..(Len(hay) - Len(needle)) : SubSeq(hay, i + 1, i + Len(needle)) = needle

(* Mutant: only the display name is searched, not the category tags *)
matchesCuisine_NameOnly(place, cuisineFilters) ==
    \/ cuisineFilters = <<>>
    \/ \E n \in 1..Len(cuisineFilters) :
          LET needle == cuisineFilters[n]
              name == IF place.name = None THEN <<>> ELSE ToLowerCase(place.name.some)
          IN  Includes(name, needle)

(* matchesCuisine *)
matchesCuisine(place, cuisineFilters) ==
    \/ cuisineFilters = <<>>
    \/ \E n \in 1..Len(cuisineFilters) :
          LET needle == cuisineFilters[n]
              name == IF place.name = None THEN <<>> ELSE ToLowerCase(place.name.some)
          IN  \/ Includes(name, needle)
              \/ \E t \in 1..Len(place.types) :
                    Includes(ToLowerCase(place.types[t]), needle)

RECURSIVE FilterCuisine(_, _)
FilterCuisine(places, cuisineFilters) ==
    IF places = <<>> THEN <<>>
    ELSE IF matchesCuisine(Head(places), cuisineFilters)
    THEN <<Head(places)>> \o FilterCuisine(Tail(places), cuisineFilters)
    ELSE FilterCuisine(Tail(places), cuisineFilters)

(* .sort((a, b) => b.fit_score - a.fit_score): descending, equal scores    *)
(* keep their order                                                        *)
RECURSIVE InsertByScore(_, _)
InsertByScore(x, sorted) ==
    IF sorted = <<>> THEN <<x>>
    ELSE IF x.fit_score > Head(sorted).fit_score THEN <<x>> \o sorted
    ELSE <<Head(sorted)>> \o InsertByScore(x, Tail(sorted))

RECURSIVE SortByScore(_)
SortByScore(results) ==
    IF results = <<>> THEN <<>>
    ELSE InsertByScore(results[Len(results)],
                       SortByScore(SubSeq(results, 1, Len(results) - 1)))

(* the count slice(0, x) and Array.from({ length: x }) take from x: its    *)
(* whole part, 0 for NaN and for anything below 0                          *)
ToLength(x) ==
    CASE x.k = "number" -> Max(x.n, 0)
      [] x.k = "fraction" -> Max(x.floor, 0)
      [] OTHER -> 0

(* Mutant: the list is cut to the limit before it is sorted *)
normalizePlaces_SliceFirst(places, req) ==
    LET filtered == FilterCuisine(places, req.cuisine)
        cut == SubSeq(filtered, 1, Min(Len(filtered), ToLength(req.limit)))
    IN  SortByScore([i \in 1..Len(cut) |-> buildSearchResult(cut[i], req)])

(* normalizePlaces *)
normalizePlaces(places, req) ==
    LET filtered == FilterCuisine(places, req.cuisine)
        results == SortByScore([i \in 1..Len(filtered) |->
                                   buildSearchResult(filtered[i], req)])
    IN  SubSeq(results, 1, Min(Len(results), ToLength(req.limit)))

(* MOCK_PLACE_TEMPLATES *)
MOCK_PLACE_TEMPLATES ==
    <<[id |-> "mock-1", baseDistanceMeters |-> 180, rating |-> 42,
       priceLevel |-> "PRICE_LEVEL_INEXPENSIVE", openNow |-> "true"],
      [id |-> "mock-2", baseDistanceMeters |-> 320, rating |-> 45,
       priceLevel |-> "PRICE_LEVEL_MODERATE", openNow |-> "true"],
      [id |-> "mock-3", baseDistanceMeters |-> 420, rating |-> 41,
       priceLevel |-> "PRICE_LEVEL_INEXPENSIVE", openNow |-> "false"],
      [id |-> "mock-4", baseDistanceMeters |-> 290, rating |-> 46,
       priceLevel |-> "PRICE_LEVEL_EXPENSIVE", openNow |-> "true"],
      [id |-> "mock-5", baseDistanceMeters |-> 150, rating |-> 40,
       priceLevel |-> "null", openNow |-> "null"]>>

(* buildMockSearchResponse at Date.now() = t.  The coordinate displaced by *)
(* `distance` from the origin is taken to lie at that distance.            *)
buildMockSearchResponse(req, t) ==
    LET limit == ToLength(MinWith(req.limit, Len(MOCK_PLACE_TEMPLATES)))
        cuisines == FilterNonEmpty(req.cuisine)
        radius == Max(100, Min(req.radius_m.n, 1000))
        result(index) ==
            LET template == MOCK_PLACE_TEMPLATES[(index % Len(MOCK_PLACE_TEMPLATES)) + 1]
                distance == Min(radius, template.baseDistanceMeters + index * 80)
                place == [id |-> [template |-> template.id, index |-> index],
                          name |-> [template |-> template.id,
                                    label |-> IF cuisines = <<>> THEN None
                                              ELSE Some(cuisines[(index % Len(cuisines)) + 1])],
                          rating |-> Num(template.rating),
                          priceLevel |-> template.priceLevel,
                          openNow |-> template.openNow,
                          distance |-> Num(distance)]
            IN  buildSearchResult(place, req)
    IN  [results |-> [i \in 1..limit |-> result(i - 1)], cachedAt |-> t]

----------------------------------------------------------------------------
(* POST /api/search.  A request occupies a slot; each action is one run of *)
(* the handler between two awaits.                                         *)

Slots == {1, 2}

NoHeader == ""

(* getRateLimitKey *)
getRateLimitKey(headers) ==
    IF headers.teamId # NoHeader THEN <<"team", headers.teamId>>
    ELSE IF headers.cfConnectingIp # NoHeader THEN <<"ip", headers.cfConnectingIp>>
    ELSE IF headers.xForwardedFor # NoHeader THEN <<"ip", headers.xForwardedFor>>
    ELSE IF headers.xRealIp # NoHeader THEN <<"ip", headers.xRealIp>>
    ELSE <<"ip", "anonymous">>

HeaderSets ==
    {[teamId |-> "a", cfConnectingIp |-> "10.0.0.1", xForwardedFor |-> NoHeader,
      xRealIp |-> NoHeader],
     [teamId |-> NoHeader, cfConnectingIp |-> NoHeader, xForwardedFor |-> NoHeader,
      xRealIp |-> NoHeader]}

RateKeys == {getRateLimitKey(h) : h \in HeaderSets}

NoOps == [bucketGet |-> 0, bucketPut |-> 0, cacheGet |-> 0, cachePut |-> 0,
          upstream |-> 0, mock |-> 0]

IdleWork == [idle |-> TRUE]

NoneServed == [start |-> 0, lastAt |-> 0, n |-> 0, admitted |-> 0, ok |-> 0,
               rejected |-> 0, failed |-> 0, lastRetry |-> 0]

(* The reference the handler's limiter is compared with: the buckets and   *)
(* the answers of consumeToken run without interruption, once per request *)
(* in the order the requests sample Date.now(); over and under count the  *)
(* requests the handler admitted against it and denied against it.        *)
NoneSerial == [store |-> EmptyStore, allowed |-> [s \in Slots |-> TRUE],
               over |-> 0, under |-> 0]

InitHandlers ==
    /\ pc =[s \in Slots |-> "Idle"]
    /\ work = [s \in Slots |-> IdleWork]
    /\ resp = [s \in Slots |-> None]
    /\ path = [s \in Slots |-> <<>>]
    /\ ops = [s \in Slots |-> NoOps]
    /\ prevOk = None
    /\ served = [k \in RateKeys |-> NoneServed]
    /\ nreq = 0
    /\ serial = NoneSerial

InitServerIdle ==
    /\ apiKey = FALSE
    /\ InitHandlers

Saturate(n, max) == IF n < max THEN n ELSE max

Bump(counters, field) == [counters EXCEPT ![field] = @ + 1]

(* a request arrives: the handler starts and awaits c.req.json() *)
Receive(s, headers, body, max) ==
    /\ pc[s] \in {"Idle", "Responding"}
    /\ nreq < max
    /\ nreq' = nreq + 1
    /\ prevOk' = IF pc[s] = "Responding" /\ resp[s].status = 200
                 THEN [request |-> work[s].request, body |-> resp[s].body]
                 ELSE prevOk
    /\ pc' = [pc EXCEPT ![s] = "Validating"]
    /\ work' = [work EXCEPT ![s] = [headers |-> headers, body |-> body]]
    /\ resp' = [resp EXCEPT ![s] = None]
    /\ path' = [path EXCEPT ![s] = <<"Validating">>]
    /\ ops' = [ops EXCEPT ![s] = NoOps]
    /\ UNCHANGED <<clock, store, ticks, limVars, keyVars, apiKey, serial, served>>

(* safeParseBody returns: 400, or on to consumeToken *)
Validate(s) ==
    /\ pc[s] = "Validating"
    /\ LET parsed == safeParseBody(work[s].body)
       IN  IF parsed.ok
           THEN /\ pc' = [pc EXCEPT ![s] = "RateLimiting"]
                /\ work' = [work EXCEPT ![s] =
                              [headers |-> @.headers, request |-> parsed.value]]
                /\ path' = [path EXCEPT ![s] = Append(@, "RateLimiting")]
                /\ resp' = resp
           ELSE /\ pc' = [pc EXCEPT ![s] = "Responding"]
                /\ work' = [work EXCEPT ![s] = [headers |-> @.headers]]
                /\ path' = [path EXCEPT ![s] = Append(@, "Responding")]
                /\ resp' = [resp EXCEPT ![s] =
                              [status |-> 400, body |-> [error |-> parsed.error]]]
    /\ UNCHANGED <<clock, store, ticks, limVars, keyVars, apiKey, serial, ops, prevOk,
                   served, nreq>>

(* consumeToken up to its await of cache.get *)
RateRead(s) ==
    /\ pc[s] = "RateLimiting"
    /\ LET bucketKey == BucketKey(getRateLimitKey(work[s].headers))
       IN  /\ work' = [work EXCEPT ![s] =
                         [headers |-> @.headers, request |-> @.request, now |-> clock,
                          existing |-> CacheGetJson(store, bucketKey, clock)]]
           /\ store' = CacheGetStore(store, bucketKey, clock)
    /\ serial' = LET alone == consumeToken(serial.store,
                                           getRateLimitKey(work[s].headers), clock)
                 IN  [serial EXCEPT !.store = alone.store,
                                    !.allowed[s] = alone.allowed]
    /\ pc' = [pc EXCEPT ![s] = "RateLimitingPut"]
    /\ ops' = [ops EXCEPT ![s] = Bump(@, "bucketGet")]
    /\ UNCHANGED <<clock, ticks, limVars, keyVars, apiKey, resp, path, prevOk,
                   served, nreq>>

(* consumeToken from there up to its await of cache.put *)
RateWrite(s) ==
    /\ pc[s] = "RateLimitingPut"
    /\ LET key == getRateLimitKey(work[s].headers)
           out == ConsumeTokenWrite(store, key, work[s].existing, work[s].now, clock)
       IN  /\ store' = out.store
           /\ work' = [work EXCEPT ![s] =
                         [headers |-> @.headers, request |-> @.request,
                          rate |-> [allowed |-> out.allowed,
                                    retryAfterSeconds |-> out.retryAfterSeconds]]]
           /\ served' = [served EXCEPT ![key] =
                           LET fresh == ~Truthy(work[s].existing)
                               base == IF fresh THEN NoneServed ELSE @
                           IN  [base EXCEPT
                                   !.start = IF fresh THEN work[s].now ELSE @,
                                   !.lastAt = work[s].now,
                                   !.n = Saturate(@ + 1, RATE_LIMIT_CAPACITY + 2),
                                   !.admitted = IF out.allowed THEN @ + 1 ELSE @]]
           /\ serial' = [serial EXCEPT
                           !.over = IF out.allowed /\ ~serial.allowed[s]
                                    THEN @ + 1 ELSE @,
                           !.under = IF ~out.allowed /\ serial.allowed[s]
                                     THEN @ + 1 ELSE @]
    /\ pc' = [pc EXCEPT ![s] = "RateLimitingDone"]
    /\ ops' = [ops EXCEPT ![s] = Bump(@, "bucketPut")]
    /\ UNCHANGED <<clock, ticks, limVars, keyVars, apiKey, resp, path, prevOk, nreq>>

(* Mutant: the cache is looked up before the limiter's answer is tested *)
RateDone_LookupFirst(s) ==
    /\ pc[s] = "RateLimitingDone"
    /\ LET key == getRateLimitKey(work[s].headers)
           cacheKey == buildCacheKey(work[s].request)
       IN  /\ store' = CacheGetStore(store, cacheKey, clock)
           /\ ops' = [ops EXCEPT ![s] = Bump(@, "cacheGet")]
           /\ IF ~work[s].rate.allowed
              THEN /\ resp' = [resp EXCEPT ![s] =
                                 [status |-> 429, body |-> [error |-> "Too many requests"],
                                  retryAfter |-> work[s].rate.retryAfterSeconds]]
                   /\ pc' = [pc EXCEPT ![s] = "Responding"]
                   /\ path' = [path EXCEPT ![s] = Append(@, "Responding")]
                   /\ served' = [served EXCEPT ![key] =
                                   [@ EXCEPT !.rejected = @ + 1,
                                             !.lastRetry = work[s].rate.retryAfterSeconds]]
                   /\ work' = work
              ELSE /\ work' = [work EXCEPT ![s] =
                                 [headers |-> @.headers, request |-> @.request,
                                  rate |-> @.rate, cacheKey |-> cacheKey,
                                  lookupAt |-> clock,
                                  cached |-> CacheGetJson(store, cacheKey, clock)]]
                   /\ pc' = [pc EXCEPT ![s] = "CacheLookup"]
                   /\ path' = [path EXCEPT ![s] = Append(@, "CacheLookup")]
                   /\ UNCHANGED <<resp, served>>
    /\ UNCHANGED <<clock, ticks, limVars, keyVars, apiKey, serial, prevOk, nreq>>

(* consumeToken returns: 429, or buildCacheKey and cache.get up to its await *)
RateDone(s) ==
    /\ pc[s] = "RateLimitingDone"
    /\ LET key == getRateLimitKey(work[s].headers)
           cacheKey == buildCacheKey(work[s].request)
       IN  IF ~work[s].rate.allowed
           THEN /\ resp' = [resp EXCEPT ![s] =
                              [status |-> 429, body |-> [error |-> "Too many requests"],
                               retryAfter |-> work[s].rate.retryAfterSeconds]]
                /\ pc' = [pc EXCEPT ![s] = "Responding"]
                /\ path' = [path EXCEPT ![s] = Append(@, "Responding")]
                /\ served' = [served EXCEPT ![key] =
                                [@ EXCEPT !.rejected = @ + 1,
                                          !.lastRetry = work[s].rate.retryAfterSeconds]]
                /\ UNCHANGED <<store, ops, work>>
           ELSE /\ work' = [work EXCEPT ![s] =
                              [headers |-> @.headers, request |-> @.request,
                               rate |-> @.rate, cacheKey |-> cacheKey, lookupAt |-> clock,
                               cached |-> CacheGetJson(store, cacheKey, clock)]]
                /\ store' = CacheGetStore(store, cacheKey, clock)
                /\ pc' = [pc EXCEPT ![s] = "CacheLookup"]
                /\ path' = [path EXCEPT ![s] = Append(@, "CacheLookup")]
                /\ ops' = [ops EXCEPT ![s] = Bump(@, "cacheGet")]
                /\ UNCHANGED <<resp, served>>
    /\ UNCHANGED <<clock, ticks, limVars, keyVars, apiKey, serial, prevOk, nreq>>

(* Mutant: a hit is answered with cachedAt set to the time of the answer *)
CacheHit_Restamp(s) ==
    /\ pc[s] = "CacheLookup"
    /\ Truthy(work[s].cached)
    /\ resp' = [resp EXCEPT ![s] =
                  [status |-> 200, body |-> [work[s].cached EXCEPT !.cachedAt = clock],
                   xCache |-> "HIT", xMockData |-> FALSE]]
    /\ pc' = [pc EXCEPT ![s] = "Responding"]
    /\ path' = [path EXCEPT ![s] = @ \o <<"CacheHit", "Responding">>]
    /\ served' = [served EXCEPT ![getRateLimitKey(work[s].headers)] = Bump(@, "ok")]
    /\ UNCHANGED <<clock, store, ticks, limVars, keyVars, apiKey, serial, work, ops, prevOk,
                   nreq>>

(* cache.get returned an entry: X-Cache HIT and the entry as the body *)
CacheHit(s) ==
    /\ pc[s] = "CacheLookup"
    /\ Truthy(work[s].cached)
    /\ resp' = [resp EXCEPT ![s] =
                  [status |-> 200, body |-> work[s].cached, xCache |-> "HIT",
                   xMockData |-> FALSE]]
    /\ pc' = [pc EXCEPT ![s] = "Responding"]
    /\ path' = [path EXCEPT ![s] = @ \o <<"CacheHit", "Responding">>]
    /\ served' = [served EXCEPT ![getRateLimitKey(work[s].headers)] = Bump(@, "ok")]
    /\ UNCHANGED <<clock, store, ticks, limVars, keyVars, apiKey, serial, work, ops, prevOk,
                   nreq>>

(* no entry and no API key: buildMockSearchResponse and cache.put *)
FetchMock(s) ==
    /\ pc[s] = "CacheLookup"
    /\ ~Truthy(work[s].cached)
    /\ ~apiKey
    /\ LET mockResponse == buildMockSearchResponse(work[s].request, clock)
       IN  /\ store' = CachePut(store, work[s].cacheKey, JsonText(mockResponse),
                                MOCK_CACHE_TTL, clock)
           /\ work' = [work EXCEPT ![s] =
                         [headers |-> @.headers, request |-> @.request,
                          rate |-> @.rate, cacheKey |-> @.cacheKey, lookupAt |-> @.lookupAt,
                          cached |-> @.cached, response |-> mockResponse]]
    /\ pc' = [pc EXCEPT ![s] = "CacheStore"]
    /\ path' = [path EXCEPT ![s] = @ \o <<"Fetching", "Normalizing", "CacheStore">>]
    /\ ops' = [ops EXCEPT ![s] = Bump(Bump(@, "mock"), "cachePut")]
    /\ UNCHANGED <<clock, ticks, limVars, keyVars, apiKey, serial, resp, prevOk, served, nreq>>

(* no entry and an API key: fetchNearbyPlaces up to its await of fetch *)
FetchUpstream(s) ==
    /\ pc[s] = "CacheLookup"
    /\ ~Truthy(work[s].cached)
    /\ apiKey
    /\ pc' = [pc EXCEPT ![s] = "Fetching"]
    /\ path' = [path EXCEPT ![s] = Append(@, "Fetching")]
    /\ ops' = [ops EXCEPT ![s] = Bump(@, "upstream")]
    /\ UNCHANGED <<clock, store, ticks, limVars, keyVars, apiKey, serial, work, resp, prevOk,
                   served, nreq>>

(* Mutant: the response is stored only when the key holds no entry *)
UpstreamOk_FirstWriteWins(s, places) ==
    /\ pc[s] = "Fetching"
    /\ LET response == [results |-> normalizePlaces(places, work[s].request),
                        cachedAt |-> clock]
       IN  /\ store' = IF Has(store, work[s].cacheKey)
                       THEN store
                       ELSE CachePut(store, work[s].cacheKey, JsonText(response),
                                     SEARCH_CACHE_TTL, clock)
           /\ work' = [work EXCEPT ![s] =
                         [headers |-> @.headers, request |-> @.request,
                          rate |-> @.rate, cacheKey |-> @.cacheKey, lookupAt |-> @.lookupAt,
                          cached |-> @.cached, response |-> response]]
    /\ pc' = [pc EXCEPT ![s] = "CacheStore"]
    /\ path' = [path EXCEPT ![s] = @ \o <<"Normalizing", "CacheStore">>]
    /\ ops' = [ops EXCEPT ![s] = Bump(@, "cachePut")]
    /\ UNCHANGED <<clock, ticks, limVars, keyVars, apiKey, serial, resp, prevOk, served, nreq>>

(* the upstream answered ok: normalizePlaces and cache.put *)
UpstreamOk(s, places) ==
    /\ pc[s] = "Fetching"
    /\ LET response == [results |-> normalizePlaces(places, work[s].request),
                        cachedAt |-> clock]
       IN  /\ store' = CachePut(store, work[s].cacheKey, JsonText(response),
                                SEARCH_CACHE_TTL, clock)
           /\ work' = [work EXCEPT ![s] =
                         [headers |-> @.headers, request |-> @.request,
                          rate |-> @.rate, cacheKey |-> @.cacheKey, lookupAt |-> @.lookupAt,
                          cached |-> @.cached, response |-> response]]
    /\ pc' = [pc EXCEPT ![s] = "CacheStore"]
    /\ path' = [path EXCEPT ![s] = @ \o <<"Normalizing", "CacheStore">>]
    /\ ops' = [ops EXCEPT ![s] = Bump(@, "cachePut")]
    /\ UNCHANGED <<clock, ticks, limVars, keyVars, apiKey, serial, resp, prevOk, served, nreq>>

(* Mutant: every upstream failure is answered 502 *)
UpstreamFail_Always502(s, status) ==
    /\ pc[s] = "Fetching"
    /\ resp' = [resp EXCEPT ![s] =
                  [status |-> 502, body |-> [error |-> [placesApiError |-> status]]]]
    /\ work' = [work EXCEPT ![s] =
                  [headers |-> @.headers, request |-> @.request, rate |-> @.rate,
                   cacheKey |-> @.cacheKey, lookupAt |-> @.lookupAt,
                   cached |-> @.cached, upstreamStatus |-> status]]
    /\ pc' = [pc EXCEPT ![s] = "Responding"]
    /\ path' = [path EXCEPT ![s] = Append(@, "Responding")]
    /\ served' = [served EXCEPT ![getRateLimitKey(work[s].headers)] = Bump(@, "failed")]
    /\ UNCHANGED <<clock, store, ticks, limVars, keyVars, apiKey, serial, ops, prevOk, nreq>>

(* Mutant: a request the upstream fails gets its token back *)
UpstreamFail_Refund(s, status) ==
    /\ pc[s] = "Fetching"
    /\ resp' = [resp EXCEPT ![s] =
                  [status |-> status, body |-> [error |-> [placesApiError |-> status]]]]
    /\ work' = [work EXCEPT ![s] =
                  [headers |-> @.headers, request |-> @.request, rate |-> @.rate,
                   cacheKey |-> @.cacheKey, lookupAt |-> @.lookupAt,
                   cached |-> @.cached, upstreamStatus |-> status]]
    /\ store' = LET bucketKey == BucketKey(getRateLimitKey(work[s].headers))
                    bucket == store[bucketKey].value.json
                IN  CachePut(store, bucketKey,
                             StringifyBucket(JsAdd(bucket.tokens, Num(RATE_LIMIT_INTERVAL_MS)),
                                             bucket.updatedAt),
                             BUCKET_TTL, clock)
    /\ pc' = [pc EXCEPT ![s] = "Responding"]
    /\ path' = [path EXCEPT ![s] = Append(@, "Responding")]
    /\ served' = [served EXCEPT ![getRateLimitKey(work[s].headers)] = Bump(@, "failed")]
    /\ UNCHANGED <<clock, ticks, limVars, keyVars, apiKey, serial, ops, prevOk, nreq>>

(* the upstream answered with an error status: fetchNearbyPlaces returns   *)
(* { ok: false, status } and the handler answers places.status ?? 502      *)
UpstreamFail(s, status) ==
    /\ pc[s] = "Fetching"
    /\ resp' = [resp EXCEPT ![s] =
                  [status |-> status, body |-> [error |-> [placesApiError |-> status]]]]
    /\ work' = [work EXCEPT ![s] =
                  [headers |-> @.headers, request |-> @.request, rate |-> @.rate,
                   cacheKey |-> @.cacheKey, lookupAt |-> @.lookupAt,
                   cached |-> @.cached, upstreamStatus |-> status]]
    /\ pc' = [pc EXCEPT ![s] = "Responding"]
    /\ path' = [path EXCEPT ![s] = Append(@, "Responding")]
    /\ served' = [served EXCEPT ![getRateLimitKey(work[s].headers)] = Bump(@, "failed")]
    /\ UNCHANGED <<clock, store, ticks, limVars, keyVars, apiKey, serial, ops, prevOk, nreq>>

(* cache.put returned: X-Cache MISS and the fresh response as the body *)
RespondMiss(s) ==
    /\ pc[s] = "CacheStore"
    /\ resp' = [resp EXCEPT ![s] =
                  [status |-> 200, body |-> work[s].response, xCache |-> "MISS",
                   xMockData |-> ~apiKey]]
    /\ pc' = [pc EXCEPT ![s] = "Responding"]
    /\ path' = [path EXCEPT ![s] = Append(@, "Responding")]
    /\ served' = [served EXCEPT ![getRateLimitKey(work[s].headers)] = Bump(@, "ok")]
    /\ UNCHANGED <<clock, store, ticks, limVars, keyVars, apiKey, serial, work, ops, prevOk,
                   nreq>>

----------------------------------------------------------------------------
(* Limiter harness: the two limiters are called side by side on the same   *)
(* key at the same time, each against its own store, one call after the    *)
(* other; the clock moves between calls.                                   *)

LimiterKeys == {"team:test"}
TickSteps == {500, 1000, 3000, 6000, 60000, 120000}

NoRes == [none |-> TRUE]

(* What a call returned, when it was made, the record it found under the   *)
(* bucket key, what get returned for it and the record it left.            *)
Found(st, key) == IF Has(st, key) THEN st[key] ELSE NoRes

CallResult(out, found, existing, key, t) ==
    [allowed |-> out.allowed,
     found |-> found,
     retryAfterSeconds |-> out.retryAfterSeconds,
     at |-> t,
     existing |-> existing,
     record |-> IF Has(out.store, BucketKey(key))
                THEN out.store[BucketKey(key)] ELSE NoRes]

InitClock ==
    /\ clock = 0
    /\ ticks = 0

InitFnIdle ==
    /\ fnIn = None
    /\ fnOut = None

InitKeyIdle ==
    /\ keyIn = <<>>
    /\ keyOut = <<>>
    /\ InitFnIdle

InitLimiter ==
    /\ libRes = [k \in LimiterKeys |-> NoRes]
    /\ apiRes = [k \in LimiterKeys |-> NoRes]
    /\ run = [k \in LimiterKeys |-> [start |-> 0, n |-> 0]]
    /\ firstDenied = [k \in LimiterKeys |-> NoRes]
    /\ prevRes = [k \in LimiterKeys |-> NoRes]
    /\ calls = 0

Tick(d, max) ==
    /\ ticks < max
    /\ clock' = clock + d
    /\ ticks' = ticks + 1
    /\ UNCHANGED <<store, limVars, keyVars, srvVars>>

Call(k) ==
    /\ calls < MaxCalls
    /\ LET libExisting == CacheGetJson(libStore, BucketKey(k), clock)
           apiExisting == CacheGetJson(store, BucketKey(k), clock)
           lib == LimiterConsume(libStore, k, clock)
           api == consumeToken(store, k, clock)
           both == [lib |-> libRes[k], api |-> apiRes[k]]
       IN  /\ libStore' = lib.store
           /\ store' = api.store
           /\ libRes' = [libRes EXCEPT ![k] = CallResult(lib, Found(libStore, BucketKey(k)), libExisting, k, clock)]
           /\ apiRes' = [apiRes EXCEPT ![k] = CallResult(api, Found(store, BucketKey(k)), apiExisting, k, clock)]
           /\ run' = [run EXCEPT ![k] =
                        IF Truthy(libExisting)
                        THEN [start |-> @.start,
                              n |-> Saturate(@.n + 1, LimiterCapacity + 2)]
                        ELSE [start |-> clock, n |-> 1]]
           /\ prevRes' = [prevRes EXCEPT ![k] = both]
           /\ firstDenied' = [firstDenied EXCEPT ![k] =
                        IF libRes[k] # NoRes /\ ~libRes[k].allowed
                        THEN (IF @ # NoRes THEN @ ELSE both)
                        ELSE NoRes]
    /\ calls' = calls + 1
    /\ UNCHANGED <<clock, ticks, keyVars, srvVars>>

NextLimiter ==
    \/ \E d \in TickSteps : Tick(d, MaxTicks)
    \/ \E k \in LimiterKeys : Call(k)

InitHarness ==
    /\ InitClock
    /\ store = EmptyStore
    /\ libStore = EmptyStore
    /\ InitLimiter
    /\ InitKeyIdle
    /\ InitServerIdle

SpecLimiter == InitHarness /\ [][NextLimiter]_vars

(* The same harness started with a damaged record under the bucket key, as *)
(* another writer of the shared store can leave it: text that is not JSON, *)
(* or JSON without a numeric tokens or updatedAt.                          *)
CorruptValues ==
    {Garbage,
     JsonText([tokens |-> Undefined, updatedAt |-> Undefined]),
     JsonText([tokens |-> Undefined, updatedAt |-> Num(0)]),
     JsonText([tokens |-> Num(0), updatedAt |-> Undefined])}

InitCorrupt ==
    /\ InitClock
    /\ \E v \in CorruptValues : \E k \in LimiterKeys :
           /\ store = (BucketKey(k) :> [value |-> v, expiresAt |-> NoExpiry])
           /\ libStore = store
    /\ InitLimiter
    /\ InitKeyIdle
    /\ InitServerIdle

SpecCorrupt == InitCorrupt /\ [][NextLimiter]_vars

(* createRateLimiter against the expiring in-memory cache and against a    *)
(* store that never expires an entry, called side by side on one clock:    *)
(* libStore, libRes are the cache's, store, apiRes the other store's.      *)

MaxIdleCalls == 13
MaxIdleTicks == 3

IdleTickSteps == {6000, 60000, 119999, 120000}

(* what put leaves in a store that keeps no expiry *)
Kept(st) == [x \in DOMAIN st |-> [st[x] EXCEPT !.expiresAt = NoExpiry]]

CallIdle(k) ==
    /\ calls < MaxIdleCalls
    /\ LET lib == LimiterConsume(libStore, k, clock)
           kept == LimiterConsume(store, k, clock)
       IN  /\ libStore' = lib.store
           /\ store' = Kept(kept.store)
           /\ libRes' = [libRes EXCEPT ![k] =
                           CallResult(lib, Found(libStore, BucketKey(k)),
                                      CacheGetJson(libStore, BucketKey(k), clock), k, clock)]
           /\ apiRes' = [apiRes EXCEPT ![k] =
                           CallResult(kept, Found(store, BucketKey(k)),
                                      CacheGetJson(store, BucketKey(k), clock), k, clock)]
           /\ prevRes' = [prevRes EXCEPT ![k] = [lib |-> libRes[k], api |-> apiRes[k]]]
    /\ calls' = calls + 1
    /\ UNCHANGED <<clock, ticks, run, firstDenied, keyVars, srvVars>>

NextIdle ==
    \/ \E d \in IdleTickSteps : Tick(d, MaxIdleTicks)
    \/ \E k \in LimiterKeys : CallIdle(k)

SpecIdle == InitHarness /\ [][NextIdle]_vars

----------------------------------------------------------------------------
(* The bucket arithmetic in IEEE-754 doubles, as the JavaScript engine     *)
(* computes it.  A positive double is a significand of 53 bits, leading    *)
(* with 1, and the binary exponent e of that first bit; the significand is *)
(* held as four limbs of 14 bits, most significant first.  Every operation *)
(* is rounded to nearest, ties to even.  The values of the bucket          *)
(* arithmetic are far from the subnormal and the overflow range, and are   *)
(* never negative while the clock does not go back.                        *)

LimbBase == 2^14

(* F of the value of v, of v and w: the arguments are evaluated once, as   *)
(* the arguments of a JavaScript call are                                  *)
With(F(_), v) == CHOOSE r \in {F(a) : a \in {v}} : TRUE

With2(F(_, _), v, w) == CHOOSE r \in {F(a, b) : a \in {v}, b \in {w}} : TRUE

DblZero == [m |-> <<0, 0, 0, 0>>, e |-> 0]

IsDblZero(x) == x.m = <<0, 0, 0, 0>>

(* limb k of the number N, counted from the least significant, and bit i *)
Limb(N, k) == IF k >= 0 /\ k < Len(N) THEN N[Len(N) - k] ELSE 0

Bit(N, i) == (Limb(N, i \div 14) \div 2^(i % 14)) % 2

(* the number of binary digits of N *)
BitLen(N) ==
    IF \A j \in 1..Len(N) : N[j] = 0 THEN 0
    ELSE LET k == CHOOSE k \in 0..(Len(N) - 1) :
                      /\ Limb(N, k) # 0
                      /\ \A k2 \in (k + 1)..(Len(N) - 1) : Limb(N, k2) = 0
             w == CHOOSE w \in 1..14 : 2^(w - 1) <= Limb(N, k) /\ Limb(N, k) < 2^w
         IN  14 * k + w

(* N \div 2^s and N * 2^s, in len limbs *)
ShiftRight(N, s, len) ==
    LET a == s \div 14
        r == s % 14
    IN  [j \in 1..len |->
            (Limb(N, len - j + a) \div 2^r)
            + (Limb(N, len - j + a + 1) % 2^r) * 2^(14 - r)]

ShiftLeft(N, s, len) ==
    LET a == s \div 14
        r == s % 14
    IN  [j \in 1..len |->
            (Limb(N, len - j - a) % 2^(14 - r)) * 2^r
            + (Limb(N, len - j - a - 1) \div 2^(14 - r))]

(* the carry into limb k of A + B, and the sum in len limbs *)
Carry(A, B, k) ==
    \E j \in 0..(k - 1) :
        /\ Limb(A, j) + Limb(B, j) >= LimbBase
        /\ \A i \in (j + 1)..(k - 1) : Limb(A, i) + Limb(B, i) = LimbBase - 1

BigAdd(A, B, len) ==
    LET Sum(a, b) ==
            [j \in 1..len |->
                (Limb(a, len - j) + Limb(b, len - j)
                 + (IF Carry(a, b, len - j) THEN 1 ELSE 0)) % LimbBase]
    IN  With2(Sum, A, B)

(* the borrow from limb k of A - B, and the difference, for A >= B *)
Borrow(A, B, k) ==
    \E j \in 0..(k - 1) :
        /\ Limb(A, j) < Limb(B, j)
        /\ \A i \in (j + 1)..(k - 1) : Limb(A, i) = Limb(B, i)

BigSub(A, B, len) ==
    LET Difference(a, b) ==
            [j \in 1..len |->
                (Limb(a, len - j) - Limb(b, len - j)
                 - (IF Borrow(a, b, len - j) THEN 1 ELSE 0) + LimbBase) % LimbBase]
    IN  With2(Difference, A, B)

(* N * k for a whole number k < 2^16, two limbs longer than N *)
BigMul(N, k) ==
    LET len == Len(N) + 2
        lo  == [j \in 1..len |-> (Limb(N, len - j) * k) % LimbBase]
        mid == [j \in 1..len |-> ((Limb(N, len - j - 1) * k) \div LimbBase) % LimbBase]
        top == [j \in 1..len |-> (Limb(N, len - j - 2) * k) \div (LimbBase * LimbBase)]
    IN  BigAdd(BigAdd(lo, mid, len), top, len)

(* long division of N by a whole number k < 2^16: the quotient, and        *)
(* whether a remainder is left                                             *)
RECURSIVE BigDiv(_, _, _)
BigDiv(N, k, rem) ==
    IF N = <<>> THEN [q |-> <<>>, inexact |-> rem # 0]
    ELSE LET cur == rem * LimbBase + N[1]
             rest == BigDiv(Tail(N), k, cur % k)
         IN  [q |-> <<cur \div k>> \o rest.q, inexact |-> rest.inexact]

(* M + 1 *)
Incr(M) ==
    [j \in 1..Len(M) |->
        IF \A i \in (j + 1)..Len(M) : M[i] = LimbBase - 1
        THEN (M[j] + 1) % LimbBase ELSE M[j]]

(* the double nearest to N * 2^u, plus something below N's last digit when *)
(* sticky; ties go to the even significand                                 *)
DblRound(N, u, sticky) ==
    LET Nearest(n, L) ==
            LET s == L - 53
                Rounded(head) ==
                    LET rest == sticky \/ \E i \in 0..(s - 2) : Bit(n, i) = 1
                        up == Bit(n, s - 1) = 1 /\ (rest \/ head[4] % 2 = 1)
                    IN  IF ~up THEN [m |-> head, e |-> u + L - 1]
                        ELSE IF head = <<2^11 - 1, LimbBase - 1, LimbBase - 1, LimbBase - 1>>
                        THEN [m |-> <<2^10, 0, 0, 0>>, e |-> u + L]
                        ELSE [m |-> Incr(head), e |-> u + L - 1]
            IN  IF L = 0 THEN DblZero
                ELSE IF L <= 53 THEN [m |-> ShiftLeft(n, 53 - L, 4), e |-> u + L - 1]
                ELSE With(Rounded, ShiftRight(n, s, 4))
        Digits(n) == With2(Nearest, n, BitLen(n))
    IN  With(Digits, N)

(* a whole number below 2^31 as a double *)
DblOfInt(n) ==
    DblRound(<<n \div (LimbBase * LimbBase), (n \div LimbBase) % LimbBase, n % LimbBase>>,
             0, FALSE)

(* x / k and x * k for a whole number 0 < k < 2^16 *)
DblDiv(x, k) ==
    LET Quotient(a) ==
            LET Rounded(d) == DblRound(d.q, a.e - 52 - 42, d.inexact)
            IN  IF IsDblZero(a) THEN DblZero
                ELSE With(Rounded, BigDiv(a.m \o <<0, 0, 0>>, k, 0))
    IN  With(Quotient, x)

DblMul(x, k) ==
    LET Product(a) ==
            IF IsDblZero(a) THEN DblZero
            ELSE DblRound(BigMul(a.m, k), a.e - 52, FALSE)
    IN  With(Product, x)

(* x < y *)
DblLess(x, y) ==
    LET Less(a, b) ==
            IF IsDblZero(b) THEN FALSE
            ELSE IF IsDblZero(a) THEN TRUE
            ELSE \/ a.e < b.e
                 \/ /\ a.e = b.e
                    /\ \E j \in 1..4 :
                           a.m[j] < b.m[j] /\ \A i \in 1..(j - 1) : a.m[i] = b.m[i]
    IN  With2(Less, x, y)

(* the limbs needed to hold x and y on the unit of the smaller one, and a  *)
(* carry                                                                   *)
AlignedLen(x, y) == (54 + Abs(x.e - y.e)) \div 14 + 1

DblAdd(x, y) ==
    LET Sum(a, b) ==
            IF IsDblZero(a) THEN b
            ELSE IF IsDblZero(b) THEN a
            ELSE LET u == Min(a.e, b.e) - 52
                     len == AlignedLen(a, b)
                 IN  DblRound(BigAdd(ShiftLeft(a.m, a.e - 52 - u, len),
                                     ShiftLeft(b.m, b.e - 52 - u, len), len), u, FALSE)
    IN  With2(Sum, x, y)

(* x - y for x >= y *)
DblSub(x, y) ==
    LET Difference(a, b) ==
            IF IsDblZero(b) THEN a
            ELSE LET u == b.e - 52
                     len == AlignedLen(a, b)
                 IN  DblRound(BigSub(ShiftLeft(a.m, a.e - 52 - u, len),
                                     ShiftLeft(b.m, 0, len), len), u, FALSE)
    IN  With2(Difference, x, y)

(* Math.ceil(x) of a double below 2^31, as a whole number *)
DblCeil(x) ==
    LET Ceil(a) ==
            LET Whole(w) ==
                    w[1] * LimbBase * LimbBase + w[2] * LimbBase + w[3]
                    + (IF \E i \in 0..(51 - a.e) : Bit(a.m, i) = 1 THEN 1 ELSE 0)
            IN  IF IsDblZero(a) THEN 0
                ELSE IF a.e < 0 THEN 1
                ELSE With(Whole, ShiftRight(a.m, 52 - a.e, 3))
    IN  With(Ceil, x)

(* ---- consume and consumeToken in doubles ---- *)

DblOne == DblOfInt(1)

(* Math.min(capacity, existing.tokens + (elapsed / intervalMs) * capacity) *)
(* for a bucket { tokens: a double, updatedAt: a whole number of ms }      *)
RefilledF64(existing, t, capacity, intervalMs) ==
    LET Least(cap, tokens) == IF DblLess(cap, tokens) THEN cap ELSE tokens
        Refilled(found) ==
            IF Truthy(found)
            THEN LET elapsed == DblOfInt(t - found.updatedAt)
                     refill == DblMul(DblDiv(elapsed, intervalMs), capacity)
                 IN  With2(Least, DblOfInt(capacity), DblAdd(found.tokens, refill))
            ELSE DblOfInt(capacity)
    IN  With(Refilled, existing)

(* Math.ceil(((1 - tokens) / capacity) * intervalMs / 1000) *)
LimiterRetryAfterF64(tokens) ==
    DblCeil(DblDiv(DblMul(DblDiv(DblSub(DblOne, tokens), LimiterCapacity),
                          LimiterIntervalMs), 1000))

(* the rest of either function: the test, the put and the answer *)
AnswerF64(st, key, tokens, t, ttl, retryAfter) ==
    IF DblLess(tokens, DblOne)
    THEN [store |-> CachePut(st, BucketKey(key),
                             JsonText([tokens |-> tokens, updatedAt |-> t]), ttl, t),
          allowed |-> FALSE,
          retryAfterSeconds |-> retryAfter]
    ELSE [store |-> CachePut(st, BucketKey(key),
                             JsonText([tokens |-> DblSub(tokens, DblOne), updatedAt |-> t]),
                             ttl, t),
          allowed |-> TRUE,
          retryAfterSeconds |-> 0]

(* createRateLimiter(config).consume(key) at now() = t *)
LimiterConsumeF64(st, key, t) ==
    LET Answer(tokens) ==
            AnswerF64(CacheGetStore(st, BucketKey(key), t), key, tokens, t,
                      LimiterBucketTtlSeconds,
                      IF DblLess(tokens, DblOne) THEN LimiterRetryAfterF64(tokens) ELSE 0)
    IN  With(Answer, RefilledF64(CacheGetJson(st, BucketKey(key), t), t,
                                 LimiterCapacity, LimiterIntervalMs))

(* consumeToken(cache, key) at Date.now() = t *)
consumeTokenF64(st, key, t) ==
    LET Answer(tokens) ==
            AnswerF64(CacheGetStore(st, BucketKey(key), t), key, tokens, t, BUCKET_TTL,
                      TokenRetryAfter)
    IN  With(Answer, RefilledF64(CacheGetJson(st, BucketKey(key), t), t,
                                 RATE_LIMIT_CAPACITY, RATE_LIMIT_INTERVAL_MS))

(* Both limiters called side by side, each on its own store.  A denied     *)
(* call promises a time, its own plus retryAfterSeconds; due is the        *)
(* earliest time promised since the last allowed call, -1 when none is.    *)

MaxF64Calls == 13
MaxF64Ticks == 2

F64TickSteps == {600, 5400}

NoneDue == [lib |-> -1, api |-> -1]

DueAfter(due, out, t) ==
    IF out.allowed THEN -1
    ELSE IF due = -1 THEN t + 1000 * out.retryAfterSeconds
    ELSE Min(due, t + 1000 * out.retryAfterSeconds)

CallF64(k) ==
    /\ calls < MaxF64Calls
    /\ \E lib \in {LimiterConsumeF64(libStore, k, clock)},
          api \in {consumeTokenF64(store, k, clock)},
          due \in {IF firstDenied[k] = NoRes THEN NoneDue ELSE firstDenied[k]} :
           /\ libStore' = lib.store
           /\ store' = api.store
           /\ libRes' = [libRes EXCEPT ![k] =
                           [allowed |-> lib.allowed,
                            retryAfterSeconds |-> lib.retryAfterSeconds,
                            at |-> clock, due |-> due.lib]]
           /\ apiRes' = [apiRes EXCEPT ![k] =
                           [allowed |-> api.allowed,
                            retryAfterSeconds |-> api.retryAfterSeconds,
                            at |-> clock, due |-> due.api]]
           /\ firstDenied' = [firstDenied EXCEPT ![k] =
                                [lib |-> DueAfter(due.lib, lib, clock),
                                 api |-> DueAfter(due.api, api, clock)]]
    /\ calls' = calls + 1
    /\ UNCHANGED <<clock, ticks, run, prevRes, keyVars, srvVars>>

NextF64 ==
    \/ \E d \in F64TickSteps : Tick(d, MaxF64Ticks)
    \/ \E k \in LimiterKeys : CallF64(k)

SpecF64 == InitHarness /\ [][NextF64]_vars

----------------------------------------------------------------------------
(* Cache keys of pairs of request bodies *)

WordA == <<97>>
WordB == <<98>>
WordAB == <<97, 98>>
WordUpperB == <<66>>

KeyCuisines ==
    {<<>>, <<WordA>>, <<WordA, WordB>>, <<WordB, WordA>>, <<WordUpperB, WordA>>,
     <<WordAB, WordB, WordA>>, <<WordA, WordAB, WordB>>, <<WordB, <<>>, WordA>>}

KeyBodies ==
    {[lat |-> Num(lat), lng |-> Num(13976712), radius_m |-> Num(r),
      cuisine |-> c, budget |-> b, limit |-> Undefined] :
        lat \in {3568121, 3568124, 3568126, -4, 4},
        r \in {1200, 60000},
        c \in KeyCuisines,
        b \in {NoBudget, [max |-> 1000]}}

InitKey ==
    /\ InitClock
    /\ store = EmptyStore
    /\ libStore = EmptyStore
    /\ InitLimiter
    /\ keyIn \in KeyBodies \X KeyBodies
    /\ keyOut = <<>>
    /\ InitFnIdle
    /\ InitServerIdle

BuildKeys ==
    /\ keyIn # <<>>
    /\ keyOut = <<>>
    /\ keyOut' = [i \in 1..2 |-> buildCacheKey(safeParseBody(keyIn[i]).value)]
    /\ UNCHANGED <<clock, store, ticks, limVars, keyIn, fnIn, fnOut, srvVars>>

SpecKey == InitKey /\ [][BuildKeys]_vars

----------------------------------------------------------------------------
(* Functions applied to one argument.  Each specification below draws the *)
(* argument at the start and has one action that applies its function.    *)

Returned == DOMAIN fnOut = {"returned"}

InitFn(arguments) ==
    /\ InitClock
    /\ store = EmptyStore
    /\ libStore = EmptyStore
    /\ InitLimiter
    /\ keyIn = <<>>
    /\ keyOut = <<>>
    /\ fnIn \in arguments
    /\ fnOut = None
    /\ InitServerIdle

Apply(result) ==
    /\ fnOut = None
    /\ fnOut' = [returned |-> result]
    /\ UNCHANGED <<clock, store, ticks, limVars, keyIn, keyOut, fnIn, srvVars>>

(* safeParseBody on JSON payloads *)
ParseBodies ==
    {[lat |-> lat, lng |-> lng, radius_m |-> r, cuisine |-> <<WordA>>,
      budget |-> NoBudget, limit |-> l] :
        lat \in {Num(3568124), Frac(3568124), PlusInfinity, Text, Undefined},
        lng \in {Num(13976712), MinusInfinity},
        r \in {Num(1200), Num(0), Frac(0), Frac(-1), Num(60000), PlusInfinity, Text},
        l \in {Undefined, Null, Num(0), Num(7), Num(25), Frac(2), Frac(20),
               PlusInfinity, MinusInfinity, Text}}
    \cup {MalformedBody}

InitParse == InitFn(ParseBodies)

ParseBody == Apply(safeParseBody(fnIn))

SpecParse == InitParse /\ [][ParseBody]_vars

----------------------------------------------------------------------------
(* The search service handling one request after another.                  *)

MaxRequests == 2
MaxPauses == 2

BaseBody == [lat |-> Num(3568124), lng |-> Num(13976712), radius_m |-> Num(1200),
             cuisine |-> <<WordA, WordB>>, budget |-> NoBudget, limit |-> Undefined]

SearchBodies ==
    {BaseBody,
     [BaseBody EXCEPT !.cuisine = <<WordB, WordA>>],
     [BaseBody EXCEPT !.lat = Num(3568121), !.limit = Num(1)],
     [BaseBody EXCEPT !.radius_m = Num(0)],
     MalformedBody}

PlaceA == [id |-> [id |-> "place-a"], name |-> Some(WordA), rating |-> Num(40),
           priceLevel |-> "PRICE_LEVEL_MODERATE", openNow |-> "true",
           distance |-> Num(300), types |-> <<>>]

PlaceB == [id |-> [id |-> "place-b"], name |-> None, rating |-> Undefined,
           priceLevel |-> "null", openNow |-> "null",
           distance |-> Undefined, types |-> <<WordUpperB>>]

PlaceLists == {<<>>, <<PlaceB, PlaceA>>}

ErrorStatuses == {403, 500}

ServerTickSteps == {60000, 600000}

Init ==
    /\ InitClock
    /\ store = EmptyStore
    /\ libStore = EmptyStore
    /\ InitLimiter
    /\ InitKeyIdle
    /\ apiKey \in BOOLEAN
    /\ InitHandlers

Handle(s) ==
    \/ Validate(s)
    \/ RateRead(s)
    \/ RateWrite(s)
    \/ RateDone(s)
    \/ CacheHit(s)
    \/ FetchMock(s)
    \/ FetchUpstream(s)
    \/ \E places \in PlaceLists : UpstreamOk(s, places)
    \/ \E status \in ErrorStatuses : UpstreamFail(s, status)
    \/ RespondMiss(s)

Next ==
    \/ \E headers \in HeaderSets, body \in SearchBodies :
          Receive(1, headers, body, MaxRequests)
    \/ Handle(1)
    \/ \E d \in ServerTickSteps : Tick(d, MaxPauses)

Spec == Init /\ [][Next]_vars

(* The same service with a store binding whose calls can reject (the KV   *)
(* namespace) and an upstream whose fetch can reject.  Nothing in the      *)
(* handler, consumeToken or fetchNearbyPlaces catches a rejection, so it   *)
(* leaves the handler and the framework answers for it.                    *)

Unhandled == [status |-> 500, unhandled |-> TRUE,
              body |-> [text |-> "Internal Server Error"]]

(* an exception leaves the handler of slot s *)
Throw(s) ==
    /\ resp' = [resp EXCEPT ![s] = Unhandled]
    /\ pc' = [pc EXCEPT ![s] = "Responding"]
    /\ path' = [path EXCEPT ![s] = Append(@, "Responding")]
    /\ served' = IF "rate" \in DOMAIN work[s]
                 THEN [served EXCEPT ![getRateLimitKey(work[s].headers)] =
                          Bump(@, "failed")]
                 ELSE served

(* the cache.get or cache.put the handler is about to await rejects *)
StoreRejects(s) ==
    /\ \/ pc[s] \in {"RateLimiting", "RateLimitingPut"}
       \/ pc[s] = "RateLimitingDone" /\ work[s].rate.allowed
       \/ pc[s] = "CacheLookup" /\ ~Truthy(work[s].cached) /\ ~apiKey
    /\ Throw(s)
    /\ UNCHANGED <<clock, store, ticks, limVars, keyVars, apiKey, serial, work, ops, prevOk,
                   nreq>>

(* the fetch of fetchNearbyPlaces rejects *)
FetchThrows(s) ==
    /\ pc[s] = "Fetching"
    /\ Throw(s)
    /\ UNCHANGED <<clock, store, ticks, limVars, keyVars, apiKey, serial, work, ops, prevOk,
                   nreq>>

NextFaults ==
    \/ Next
    \/ StoreRejects(1)
    \/ FetchThrows(1)

SpecFaults == Init /\ [][NextFaults]_vars

(* One client sending a burst of requests, more than the bucket holds.     *)

MaxBurst == 12
MaxBurstPauses == 2

BurstHeaders == [teamId |-> "a", cfConnectingIp |-> NoHeader, xForwardedFor |-> NoHeader,
                 xRealIp |-> NoHeader]

BurstBodies == {BaseBody, [BaseBody EXCEPT !.lat = Text]}

BurstTickSteps == {1000, 6000}

NextBurst ==
    \/ \E body \in BurstBodies : Receive(1, BurstHeaders, body, MaxBurst)
    \/ Handle(1)
    \/ \E d \in BurstTickSteps : Tick(d, MaxBurstPauses)

SpecBurst == Init /\ [][NextBurst]_vars

(* Two requests of one client in flight at once: the handler of one slot   *)
(* runs up to an await, then the handler of either slot continues.  Both   *)
(* use the same bucket and the same search key; the upstream is configured *)
(* and answers ok.  The client's burst goes through slot 1, one request    *)
(* after another, and one more request, in slot 2, overlaps it anywhere.   *)

MaxRace == 13
MaxRacePauses == 2

RaceTickSteps == {3000, 9000}

RacePlaces == <<PlaceB, PlaceA>>

InitRace ==
    /\ InitClock
    /\ store = EmptyStore
    /\ libStore = EmptyStore
    /\ InitLimiter
    /\ InitKeyIdle
    /\ apiKey = TRUE
    /\ InitHandlers

HandleRace(s) ==
    \/ Validate(s)
    \/ RateRead(s)
    \/ RateWrite(s)
    \/ RateDone(s)
    \/ CacheHit(s)
    \/ FetchUpstream(s)
    \/ UpstreamOk(s, RacePlaces)
    \/ RespondMiss(s)

NextRace ==
    \/ Receive(1, BurstHeaders, BaseBody, MaxRace)
    \/ pc[2] = "Idle" /\ Receive(2, BurstHeaders, BaseBody, MaxRace)
    \/ \E s \in Slots : HandleRace(s)
    \/ \E d \in RaceTickSteps : Tick(d, MaxRacePauses)

SpecRace == InitRace /\ [][NextRace]_vars

(* consumeToken called by two requests at once on a store binding whose    *)
(* get resolves some time after the call (Bindings.CACHE, a KV namespace): *)
(* Date.now() is sampled when consumeToken is entered, the bucket is read  *)
(* when the get is served, and written when the put is.  With the          *)
(* in-memory cache the first two happen in one step, which is one of the   *)
(* interleavings here.                                                     *)

MaxConsume == 4
MaxConsumePauses == 2

ConsumeKey == getRateLimitKey(BurstHeaders)

ConsumeTickSteps == {6000, 60000}

(* const now = Date.now(), and the call of cache.get *)
ConsumeSample(s) ==
    /\ pc[s] = "Idle"
    /\ nreq < MaxConsume
    /\ nreq' = nreq + 1
    /\ work' = [work EXCEPT ![s] = [key |-> ConsumeKey, now |-> clock]]
    /\ pc' = [pc EXCEPT ![s] = "RateLimiting"]
    /\ UNCHANGED <<clock, store, ticks, limVars, keyVars, apiKey, serial, resp, path, ops,
                   prevOk, served>>

(* the get is served: existing *)
ConsumeRead(s) ==
    /\ pc[s] = "RateLimiting"
    /\ work' = [work EXCEPT ![s] =
                  [key |-> @.key, now |-> @.now,
                   existing |-> CacheGetJson(store, BucketKey(@.key), clock)]]
    /\ store' = CacheGetStore(store, BucketKey(work[s].key), clock)
    /\ pc' = [pc EXCEPT ![s] = "RateLimitingPut"]
    /\ UNCHANGED <<clock, ticks, limVars, keyVars, apiKey, serial, resp, path, ops,
                   prevOk, served, nreq>>

(* the refill, the test, and the put of the bucket; consumeToken returns *)
ConsumeWrite(s) ==
    /\ pc[s] = "RateLimitingPut"
    /\ LET out == ConsumeTokenWrite(store, work[s].key, work[s].existing, work[s].now,
                                    clock)
       IN  /\ store' = out.store
           /\ resp' = [resp EXCEPT ![s] =
                         [allowed |-> out.allowed,
                          retryAfterSeconds |-> out.retryAfterSeconds]]
    /\ work' = [work EXCEPT ![s] = IdleWork]
    /\ pc' = [pc EXCEPT ![s] = "Idle"]
    /\ UNCHANGED <<clock, ticks, limVars, keyVars, apiKey, serial, path, ops, prevOk,
                   served, nreq>>

NextConsume ==
    \/ \E s \in Slots : ConsumeSample(s) \/ ConsumeRead(s) \/ ConsumeWrite(s)
    \/ \E d \in ConsumeTickSteps : Tick(d, MaxConsumePauses)

SpecConsume == InitRace /\ [][NextConsume]_vars

(* One client asking for the same place, radius, cuisine and budget with   *)
(* different limits.                                                       *)

MaxLimitRequests == 3
MaxLimitPauses == 1

LimitBodies == {[BaseBody EXCEPT !.limit = l] : l \in {Undefined, Num(1), Num(3)}}

NextLimits ==
    \/ \E body \in LimitBodies : Receive(1, BurstHeaders, body, MaxLimitRequests)
    \/ Handle(1)
    \/ \E d \in ServerTickSteps : Tick(d, MaxLimitPauses)

SpecLimits == Init /\ [][NextLimits]_vars

(* Two clients, told apart by their headers, of which either can send more *)
(* requests than its bucket holds; the upstream, when configured, answers  *)
(* ok.                                                                     *)

MaxClientRequests == 12
MaxClientPauses == 1

NextClients ==
    \/ \E headers \in HeaderSets : Receive(1, headers, BaseBody, MaxClientRequests)
    \/ HandleRace(1)
    \/ FetchMock(1)
    \/ \E d \in ServerTickSteps : Tick(d, MaxClientPauses)

SpecClients == Init /\ [][NextClients]_vars

----------------------------------------------------------------------------
(* The web client (apps/web/src/routes/+page.svelte).  A slot is one call  *)
(* of triggerSearch; pc is its position, nreq the number of mutations      *)
(* started, work[s].mutation the number of the mutation the call started   *)
(* and resp[s] how the call's last mutation settled.                       *)

MaxSearches == 4

(* getCoords: the position, or the fallback when the lookup fails *)
Coords == {[lat |-> Num(3568124), lng |-> Num(13976712), fallback |-> FALSE],
           [lat |-> Num(3568124), lng |-> Num(13976713), fallback |-> TRUE]}

(* get(searchMutation).isPending: the mutation started last has not settled *)
isPending == \E s \in Slots : pc[s] = "Mutating" /\ work[s].mutation = nreq

(* handleSubmit: triggerSearch up to its await of getCoords; when a        *)
(* mutation is pending it returns at once and nothing changes              *)
Submit(s) ==
    /\ pc[s] = "Idle"
    /\ ~isPending
    /\ nreq + Cardinality({x \in Slots : pc[x] = "Locating"}) < MaxSearches
    /\ pc' = [pc EXCEPT ![s] = "Locating"]
    /\ UNCHANGED <<clock, store, ticks, limVars, keyVars, apiKey, serial, work, resp, path,
                   ops, prevOk, served, nreq>>

(* getCoords returns: mutateAsync is called with the request *)
Located(s, loc) ==
    /\ pc[s] = "Locating"
    /\ nreq' = nreq + 1
    /\ work' = [work EXCEPT ![s] = [mutation |-> nreq + 1, location |-> loc]]
    /\ pc' = [pc EXCEPT ![s] = "Mutating"]
    /\ UNCHANGED <<clock, store, ticks, limVars, keyVars, apiKey, serial, resp, path, ops,
                   prevOk, served>>

(* the request of the mutation settles: mutateAsync resolves or rejects *)
Settled(s, ok) ==
    /\ pc[s] = "Mutating"
    /\ resp' = [resp EXCEPT ![s] = [mutation |-> work[s].mutation, ok |-> ok]]
    /\ work' = [work EXCEPT ![s] = IdleWork]
    /\ pc' = [pc EXCEPT ![s] = "Idle"]
    /\ UNCHANGED <<clock, store, ticks, limVars, keyVars, apiKey, serial, path, ops,
                   prevOk, served, nreq>>

NextWeb ==
    \E s \in Slots :
        \/ Submit(s)
        \/ \E loc \in Coords : Located(s, loc)
        \/ \E ok \in BOOLEAN : Settled(s, ok)

SpecWeb == InitHarness /\ [][NextWeb]_vars

----------------------------------------------------------------------------
(* Functions of validated requests, each applied to one argument *)

(* buildMockSearchResponse on validated requests *)
MockBodies ==
    {[BaseBody EXCEPT !.radius_m = Num(r), !.cuisine = c, !.limit = l] :
        r \in {50, 300, 1000, 1200, 50000},
        c \in {<<>>, <<WordA>>, <<WordA, WordB>>},
        l \in {Undefined} \cup {Num(n) : n \in 1..20}}

InitMock == InitFn(MockBodies)

BuildMock == Apply(buildMockSearchResponse(safeParseBody(fnIn).value, clock))

SpecMock == InitMock /\ [][BuildMock]_vars

(* normalizePlaces on lists of upstream places *)
PlaceA2 == [PlaceA EXCEPT !.id = [id |-> "place-a2"]]

PlaceC == [id |-> [id |-> "place-c"], name |-> Some(WordB), rating |-> Num(48),
           priceLevel |-> "PRICE_LEVEL_INEXPENSIVE", openNow |-> "true",
           distance |-> Num(100), types |-> <<WordUpperB, WordAB>>]

PlacePool == {PlaceA, PlaceA2, PlaceB, PlaceC}

MaxPlaces == 3

PlaceSeqs == UNION {[1..n -> PlacePool] : n \in 0..MaxPlaces}

NormalizeArgs ==
    {[places |-> ps, body |-> [BaseBody EXCEPT !.cuisine = c, !.limit = l]] :
        ps \in PlaceSeqs,
        c \in {<<>>, <<WordA>>},
        l \in {Undefined, Num(1), Num(2)}}

InitNormalize == InitFn(NormalizeArgs)

Normalize == Apply(normalizePlaces(fnIn.places, safeParseBody(fnIn.body).value))

SpecNormalize == InitNormalize /\ [][Normalize]_vars

(* matchesCuisine on a place and the cuisine list of a validated request *)
WordC == <<99>>
WordUpperBA == <<66, 97>>
WordBA == <<98, 97>>

CuisineArgs ==
    {[place |-> [PlaceA EXCEPT !.name = name, !.types = types],
      body |-> [BaseBody EXCEPT !.cuisine = c]] :
        name \in {None, Some(WordA), Some(WordUpperBA), Some(WordC)},
        types \in {<<>>, <<WordUpperB>>, <<WordC, WordAB>>},
        c \in {<<>>, <<WordA>>, <<WordUpperB>>, <<WordAB>>, <<WordB, WordA>>,
               <<<<>>>>, <<WordBA>>}}

InitCuisine == InitFn(CuisineArgs)

MatchCuisine == Apply(matchesCuisine(fnIn.place, safeParseBody(fnIn.body).value.cuisine))

SpecCuisine == InitCuisine /\ [][MatchCuisine]_vars

(* computeFitScore on the arguments buildSearchResult can pass: a rating   *)
(* 0.0 .. 5.0 in tenths or null, a whole distance, a radius, a price level *)
(* (a known label, an unknown one or null) and openNow true, false or null *)
PriceLevels == {"PRICE_LEVEL_FREE", "PRICE_LEVEL_INEXPENSIVE", "PRICE_LEVEL_MODERATE",
                "PRICE_LEVEL_EXPENSIVE", "PRICE_LEVEL_VERY_EXPENSIVE",
                "PRICE_LEVEL_UNSPECIFIED", "null"}

ScoreArgs ==
    [rating : {Null} \cup {Num(n) : n \in 0..50},
     distance : {0, 1, 300, 1200, 60000},
     radius : {1, 300, 1200, 50000},
     priceLevel : PriceLevels,
     openNow : {"null", "true", "false"}]

InitScore == InitFn(ScoreArgs)

Score(args) ==
    computeFitScore(args.rating, args.distance, args.radius, args.priceLevel, args.openNow)

ComputeScore == Apply(Score(fnIn))

SpecScore == InitScore /\ [][ComputeScore]_vars

(* buildSearchResult on places with and without a coordinate.  The places  *)
(* with one lie on the meridian of the request origin, at it or 90 units   *)
(* north or 270 units south of it (100 m and 300 m).                       *)
LocateOffsets == {0, 90, -270}

LocateOrigins == {3568124, 0, -9000000}

LocateBodies ==
    {[BaseBody EXCEPT !.lat = Num(o), !.radius_m = Num(r)] :
        o \in LocateOrigins, r \in {1, 300, 1200, 70000}}

Unlocated == {[PlaceB EXCEPT !.rating = rating] : rating \in {Undefined, Num(0), Num(45)}}

PlacedAt(place, lat, lng) ==
    [x \in DOMAIN place \cup {"location"} |->
        IF x = "location" THEN [latitude |-> lat, longitude |-> lng] ELSE place[x]]

LocateArgs ==
    {[place |-> place, body |-> body] : place \in Unlocated, body \in LocateBodies}
    \cup {[place |-> PlacedAt(place, Num(body.lat.n + d), body.lng), body |-> body] :
             place \in Unlocated, body \in LocateBodies, d \in LocateOffsets}

InitLocate == InitFn(LocateArgs)

Locate == Apply(buildSearchResult(fnIn.place, safeParseBody(fnIn.body).value))

SpecLocate == InitLocate /\ [][Locate]_vars

----------------------------------------------------------------------------
(* Claims about the token bucket, checked under SpecLimiter *)

OneToken == LimiterIntervalMs
FullBucket == LimiterCapacity * LimiterIntervalMs

(* The token count the specification prescribes after the refill, in the   *)
(* bucket's units, from the bucket a call read.                            *)
ExpectedTokens(existing, t) ==
    IF existing = Null THEN FullBucket
    ELSE LET sum == existing.tokens.n + (t - existing.updatedAt.n) * LimiterCapacity
         IN  IF sum < FullBucket THEN sum ELSE FullBucket

(* Tokens a call left in the store *)
Persisted(res) == res.record.value.json.tokens.n

(* C1: for a fresh key and a clock that does not advance, the first        *)
(* capacity calls to consume(key) are allowed with retryAfterSeconds = 0   *)
(* and call capacity+1 is denied with                                      *)
(* retryAfterSeconds = ceil(intervalMs / capacity / 1000) = 6.             *)
C1_FirstCapacityCalls ==
    \A k \in LimiterKeys :
        (libRes[k] # NoRes /\ libRes[k].at = run[k].start) =>
            /\ run[k].n <= LimiterCapacity =>
                   (libRes[k].allowed /\ libRes[k].retryAfterSeconds = 0)
            /\ run[k].n = LimiterCapacity + 1 =>
                   /\ ~libRes[k].allowed
                   /\ libRes[k].retryAfterSeconds
                        = CeilDiv(LimiterIntervalMs, LimiterCapacity * 1000)
                   /\ libRes[k].retryAfterSeconds = 6

C1_Witness ==
    \E k \in LimiterKeys :
        /\ libRes[k] # NoRes
        /\ libRes[k].at = run[k].start
        /\ run[k].n = LimiterCapacity + 1
        /\ ~libRes[k].allowed

EarlierDenials(k) ==
    {d \in {prevRes[k], firstDenied[k]} : d # NoRes /\ d.lib # NoRes /\ ~d.lib.allowed}

C5_EveryCallPersists ==
    \A k \in LimiterKeys :
        apiRes[k] # NoRes =>
            LET r == apiRes[k]
                refilled == ExpectedTokens(r.existing, r.at)
                written == IF r.allowed THEN refilled - OneToken ELSE refilled
            IN  /\ Has(store, BucketKey(k))
                /\ store[BucketKey(k)] = r.record
                /\ r.record.value = JsonText([tokens |-> Num(written),
                                              updatedAt |-> Num(r.at)])
                /\ r.record.expiresAt = r.at + BUCKET_TTL * 1000

(* a denied call made later than the call before it *)
C5_Witness ==
    \E k \in LimiterKeys :
        /\ apiRes[k] # NoRes
        /\ ~apiRes[k].allowed
        /\ apiRes[k].existing # Null
        /\ apiRes[k].at > apiRes[k].existing.updatedAt.n
        /\ store[BucketKey(k)].value.json.updatedAt = Num(apiRes[k].at)

----------------------------------------------------------------------------
(* Claims about damaged bucket records, checked under SpecCorrupt *)

WellFormedBucket(v) == IsNumber(v.tokens) /\ IsNumber(v.updatedAt)

CorruptRecord(rec) ==
    /\ rec # NoRes
    /\ IsJson(rec.value) => ~WellFormedBucket(rec.value.json)

(* C6: when the record under a rate-limit key is corrupt (not JSON, or     *)
(* JSON lacking a numeric tokens or updatedAt), consume treats the bucket  *)
(* as absent: the call is allowed and leaves capacity - 1 tokens.          *)
C6_CorruptTreatedAsAbsent ==
    \A k \in LimiterKeys : \A r \in {libRes[k], apiRes[k]} :
        (r # NoRes /\ CorruptRecord(r.found)) =>
            /\ r.allowed
            /\ r.record.value = JsonText([tokens |-> Num(FullBucket - OneToken),
                                          updatedAt |-> Num(r.at)])

----------------------------------------------------------------------------
(* Claims about the cache key, checked under SpecKey *)

(* the number of times word w occurs in list *)
RECURSIVE Occurrences(_, _)
Occurrences(w, list) ==
    IF list = <<>> THEN 0
    ELSE (IF Head(list) = w THEN 1 ELSE 0) + Occurrences(w, Tail(list))

Elements(list) == {list[i] : i \in 1..Len(list)}

IsPermutation(a, b) ==
    /\ Len(a) = Len(b)
    /\ \A w \in Elements(a) \cup Elements(b) : Occurrences(w, a) = Occurrences(w, b)

(* x to 4 decimals, as text: sign and nearest ten-thousandth *)
Rounded4(x) == <<x < 0, (Abs(x) + 5) \div 10>>

SameKeyFields(a, b) ==
    /\ Rounded4(a.lat.n) = Rounded4(b.lat.n)
    /\ Rounded4(a.lng.n) = Rounded4(b.lng.n)
    /\ a.radius_m = b.radius_m
    /\ a.budget = b.budget
    /\ IsPermutation(a.cuisine, b.cuisine)

(* C10: two requests whose cuisine lists are permutations of each other    *)
(* and whose other key fields (latitude and longitude to 4 decimals, the   *)
(* clamped radius, the budget ceiling or none) agree get the same cache    *)
(* key.                                                                    *)
C10_KeyIgnoresCuisineOrder ==
    keyOut # <<>> =>
        LET a == safeParseBody(keyIn[1]).value
            b == safeParseBody(keyIn[2]).value
        IN  SameKeyFields(a, b) => keyOut[1] = keyOut[2]

(* two requests with 3 cuisine terms in different orders, latitudes in the *)
(* same 0.0001 cell and radii clamped to the same value                    *)
C10_Witness ==
    /\ keyOut # <<>>
    /\ keyIn[1].cuisine # keyIn[2].cuisine
    /\ Len(keyIn[1].cuisine) = 3
    /\ keyIn[1].lat # keyIn[2].lat
    /\ SameKeyFields(safeParseBody(keyIn[1]).value, safeParseBody(keyIn[2]).value)
    /\ keyOut[1] = keyOut[2]

----------------------------------------------------------------------------
(* Claims about a burst of requests, checked under SpecBurst *)

BurstKey == getRateLimitKey(BurstHeaders)

(* eleven requests of one client have reached the limiter since one found *)
(* no bucket, and all of them have been answered                          *)
ElevenAnswered(k) ==
    /\ served[k].n = RATE_LIMIT_CAPACITY + 1
    /\ served[k].ok + served[k].failed + served[k].rejected = served[k].n

(* the time one token takes to refill *)
TokenPeriodMs == RATE_LIMIT_INTERVAL_MS \div RATE_LIMIT_CAPACITY

(* C4 as stated: eleven consecutive valid requests of one client, all      *)
(* arriving within one 60-second window, get ten successful responses and  *)
(* one 429 with a positive Retry-After.  Read in the claim's favour: the   *)
(* first of the eleven finds no bucket and no upstream call fails.         *)
C4_ElevenWithinWindow ==
    \A k \in RateKeys :
        (/\ ElevenAnswered(k)
         /\ served[k].failed = 0
         /\ served[k].lastAt - served[k].start < RATE_LIMIT_INTERVAL_MS)
        => /\ served[k].ok = RATE_LIMIT_CAPACITY
           /\ served[k].rejected = 1
           /\ served[k].lastRetry > 0

(* C4 amended: eleven consecutive valid requests of one client, the first  *)
(* finding no bucket and all arriving less than 6 seconds (the time one    *)
(* token takes to refill) after the first: ten are admitted, each answered *)
(* 200 unless its upstream call fails, and the eleventh is answered 429    *)
(* with Retry-After 6.                                                     *)
C4_ElevenWithinTokenPeriod ==
    \A k \in RateKeys :
        (/\ ElevenAnswered(k)
         /\ served[k].lastAt - served[k].start < TokenPeriodMs)
        => /\ served[k].admitted = RATE_LIMIT_CAPACITY
           /\ served[k].ok + served[k].failed = RATE_LIMIT_CAPACITY
           /\ served[k].rejected = 1
           /\ served[k].lastRetry = TokenRetryAfter
           /\ served[k].lastRetry > 0

(* eleven requests answered, the last one a second after the first *)
C4_Witness ==
    /\ ElevenAnswered(BurstKey)
    /\ served[BurstKey].lastAt - served[BurstKey].start = 1000
    /\ served[BurstKey].ok = RATE_LIMIT_CAPACITY
    /\ served[BurstKey].rejected = 1

StagePaths ==
    {<<"Validating">>,
     <<"Validating", "Responding">>,
     <<"Validating", "RateLimiting">>,
     <<"Validating", "RateLimiting", "Responding">>,
     <<"Validating", "RateLimiting", "CacheLookup">>,
     <<"Validating", "RateLimiting", "CacheLookup", "CacheHit", "Responding">>,
     <<"Validating", "RateLimiting", "CacheLookup", "Fetching">>,
     <<"Validating", "RateLimiting", "CacheLookup", "Fetching", "Responding">>,
     <<"Validating", "RateLimiting", "CacheLookup", "Fetching", "Normalizing",
       "CacheStore">>,
     <<"Validating", "RateLimiting", "CacheLookup", "Fetching", "Normalizing",
       "CacheStore", "Responding">>}

Answered(s) == pc[s] = "Responding"

Denied(s) == "rate" \in DOMAIN work[s] /\ ~work[s].rate.allowed

StagesInOrder(s) ==
    /\ path[s] = <<>> \/ path[s] \in StagePaths
    /\ Answered(s) <=> (path[s] # <<>> /\ path[s][Len(path[s])] = "Responding")
    /\ Answered(s) /\ resp[s].status = 400 =>
          /\ path[s] = <<"Validating", "Responding">>
          /\ ops[s] = NoOps
    /\ Denied(s) =>
          /\ ops[s].cacheGet = 0 /\ ops[s].cachePut = 0
          /\ ops[s].upstream = 0 /\ ops[s].mock = 0
          /\ Answered(s) => /\ resp[s].status = 429
                            /\ path[s] = <<"Validating", "RateLimiting", "Responding">>
    /\ Answered(s) /\ resp[s].status = 429 => Denied(s)

FailureStops(s) ==
    /\ pc[s] = "Validating" /\ pc'[s] = "Responding" =>
          store' = store /\ served' = served
    /\ pc[s] = "RateLimitingDone" /\ pc'[s] = "Responding" => store' = store
    /\ Answered(s) /\ pc'[s] # "Validating" =>
          pc'[s] = pc[s] /\ path'[s] = path[s] /\ store' = store

(* C7: a request goes through Validating, RateLimiting, CacheLookup, then  *)
(* CacheHit or Fetching, in that order, and stops at a failure: one that   *)
(* fails validation reads and writes nothing in the store (so takes no     *)
(* token); one the limiter denies makes no cache lookup, no upstream call  *)
(* and no cache write.                                                     *)
C7_StagesInOrder ==
    /\ [](\A s \in Slots : StagesInOrder(s))
    /\ [][\A s \in Slots : FailureStops(s)]_vars

(* a denied request answered 429 after one bucket read and one bucket     *)
(* write, following a request refused by validation                       *)
C7_Witness ==
    /\ Answered(1)
    /\ resp[1].status = 429
    /\ ops[1].bucketGet = 1 /\ ops[1].bucketPut = 1
    /\ path[1] = <<"Validating", "RateLimiting", "Responding">>
    /\ nreq > served[BurstKey].n

----------------------------------------------------------------------------
(* Claims about the cache, checked under Spec *)

(* the entry lifetime of the configuration: mock responses are stored for  *)
(* MOCK_CACHE_TTL seconds, upstream results for SEARCH_CACHE_TTL           *)
CacheTtlMs == (IF apiKey THEN SEARCH_CACHE_TTL ELSE MOCK_CACHE_TTL) * 1000

(* identical, or differing only in the order of the cuisine terms *)
SameButCuisineOrder(a, b) ==
    /\ a.lat = b.lat
    /\ a.lng = b.lng
    /\ a.radius_m = b.radius_m
    /\ a.budget = b.budget
    /\ a.limit = b.limit
    /\ IsPermutation(a.cuisine, b.cuisine)

(* slot s answered a request that passed the limiter, after an earlier     *)
(* request was answered 200, the two identical up to cuisine order and the *)
(* lookup made within the entry lifetime of the earlier answer             *)
RepeatWithinTtl(s) ==
    /\ Answered(s)
    /\ prevOk # None
    /\ "lookupAt" \in DOMAIN work[s]
    /\ SameButCuisineOrder(prevOk.request, work[s].request)
    /\ work[s].lookupAt < prevOk.body.cachedAt + CacheTtlMs

(* C8: two identical valid requests handled one after the other within the *)
(* cache TTL return the same cachedAt, the second being answered with      *)
(* X-Cache: HIT; a request differing from the first only in the order of   *)
(* its cuisine terms returns the same payload as the first.                *)
C8_RepeatIsHit ==
    \A s \in Slots :
        RepeatWithinTtl(s) =>
            /\ resp[s].status = 200
            /\ resp[s].xCache = "HIT"
            /\ resp[s].body = prevOk.body
            /\ resp[s].body.cachedAt = prevOk.body.cachedAt

(* a request answered from the cache a minute after the first one stored   *)
(* its answer, the two listing their cuisine terms in different orders     *)
C8_Witness ==
    /\ RepeatWithinTtl(1)
    /\ work[1].request.cuisine # prevOk.request.cuisine
    /\ work[1].lookupAt > prevOk.body.cachedAt
    /\ resp[1].xCache = "HIT"
    /\ Len(resp[1].body.results) > 0

(* the steps of a hit: the lookup that finds an entry, and the answer *)
HitLookup(s) ==
    /\ pc[s] = "RateLimitingDone"
    /\ pc'[s] = "CacheLookup"
    /\ Truthy(work'[s].cached)

HitAnswer(s) == pc[s] = "CacheLookup" /\ pc'[s] = "Responding"

HitIsReadOnly(s) ==
    /\ HitLookup(s) =>
          /\ Has(store, work'[s].cacheKey)
          /\ store' = store
    /\ HitAnswer(s) =>
          /\ store' = store
          /\ Has(store, work[s].cacheKey)
          /\ store[work[s].cacheKey].value = JsonText(resp'[s].body)
          /\ resp'[s].status = 200
          /\ resp'[s].xCache = "HIT"
          /\ ops'[s].upstream = 0 /\ ops'[s].mock = 0 /\ ops'[s].cachePut = 0
          /\ path'[s] = <<"Validating", "RateLimiting", "CacheLookup", "CacheHit",
                          "Responding">>

(* C9: a cache hit returns the stored response unmodified and skips        *)
(* Fetching, Normalizing and CacheStore: no upstream call, no mock data,   *)
(* and the entry (value and expiry time) left as it was.                   *)
C9_HitIsReadOnly == [][\A s \in Slots : HitIsReadOnly(s)]_vars

(* a hit answered with the stored response while the entry is in the store *)
C9_Witness ==
    /\ Answered(1)
    /\ resp[1].status = 200
    /\ resp[1].xCache = "HIT"
    /\ Has(store, work[1].cacheKey)
    /\ store[work[1].cacheKey].value = JsonText(resp[1].body)
    /\ ops[1].cacheGet = 1

----------------------------------------------------------------------------
(* Claims about upstream failures, checked under Spec *)

UpstreamFailed(s) == Answered(s) /\ "upstreamStatus" \in DOMAIN work[s]

(* C11: when the upstream answers with a non-2xx status the request ends   *)
(* with an error response carrying that status, the upstream was called    *)
(* once for the request, and nothing is written under the request's cache  *)
(* key, so a lookup of the same key is again a miss.                       *)
C11_UpstreamErrorSurfaces ==
    /\ [](\A s \in Slots :
            UpstreamFailed(s) =>
                /\ resp[s].status = work[s].upstreamStatus
                /\ resp[s].status \in ErrorStatuses
                /\ "error" \in DOMAIN resp[s].body
                /\ ops[s].upstream = 1
                /\ ops[s].cachePut = 0
                /\ CacheGetJson(store, work[s].cacheKey, clock) = Null)
    /\ [][\A s \in Slots :
            pc[s] = "Fetching" /\ pc'[s] = "Responding" => store' = store]_vars

(* a client's second request answered with the upstream's 403, its first   *)
(* request having failed at the upstream as well                           *)
C11_Witness ==
    /\ UpstreamFailed(1)
    /\ resp[1].status = 403
    /\ nreq = 2
    /\ served[getRateLimitKey(work[1].headers)].failed = 2
    /\ prevOk = None

----------------------------------------------------------------------------
(* Claims about failing dependencies, checked under SpecFaults *)

(* C12: no failure leaves the search handler as an unhandled exception: a  *)
(* store call that throws during rate limiting or cache lookup is treated  *)
(* as a cache miss and the request goes on, and an upstream call that      *)
(* throws is answered with a structured error of status 502.               *)
C12_NoUnhandledException ==
    \A s \in Slots :
        Answered(s) =>
            /\ "unhandled" \notin DOMAIN resp[s]
            /\ resp[s].status \in {200, 400, 429, 502} \cup ErrorStatuses

----------------------------------------------------------------------------
(* Claims about validation, checked under SpecParse *)

(* C13: every request that passes validation has finite location.lat and   *)
(* location.lng, a finite radius_m with 0 < radius_m <= 50000, and a limit *)
(* that is a whole number from 1 to 20, 5 when omitted, whatever the       *)
(* parseable payload held in these fields.                                 *)
C13_ValidatedFieldsInRange ==
    (Returned /\ fnOut.returned.ok) =>
        /\ IsFinite(fnOut.returned.value.lat)
        /\ IsFinite(fnOut.returned.value.lng)
        /\ IsFinite(fnOut.returned.value.radius_m)
        /\ ~AtMost(fnOut.returned.value.radius_m, 0)
        /\ AtMost(fnOut.returned.value.radius_m, 50000)
        /\ IsNumber(fnOut.returned.value.limit)
        /\ AtLeast(fnOut.returned.value.limit, 1)
        /\ AtMost(fnOut.returned.value.limit, 20)
        /\ (Nullish(fnIn.limit) => fnOut.returned.value.limit = Num(5))

----------------------------------------------------------------------------
(* Claims about the mock generator, checked under SpecMock *)

DescendingByScore(results) ==
    \A i \in 1..(Len(results) - 1) : results[i].fit_score >= results[i + 1].fit_score

(* C14: with no upstream credential the response holds synthesized         *)
(* results sorted by descending fit_score, each with distance_m <= 1000,   *)
(* and exactly 5 of them for limit 5.                                      *)
C14_MockSortedAndBounded ==
    Returned =>
        /\ DescendingByScore(fnOut.returned.results)
        /\ \A i \in 1..Len(fnOut.returned.results) : fnOut.returned.results[i].distance_m <= 1000
        /\ safeParseBody(fnIn).value.limit = Num(5) => Len(fnOut.returned.results) = 5

(* C15: the mock generator produces request.limit results for every limit  *)
(* from 1 to 20, going round the 5 templates when the limit exceeds 5.     *)
C15_MockProducesLimit ==
    Returned =>
        LET limit == safeParseBody(fnIn).value.limit.n
        IN  /\ Len(fnOut.returned.results) = limit
            /\ \A i \in 1..Len(fnOut.returned.results) :
                  fnOut.returned.results[i].place_id =
                      [template |-> MOCK_PLACE_TEMPLATES[((i - 1) % 5) + 1].id,
                       index |-> i - 1]

----------------------------------------------------------------------------
(* Claims about response headers, checked under Spec *)

(* without an API key every payload the service sends or stores was made  *)
(* by buildMockSearchResponse                                             *)
PayloadIsMock(s) == ~apiKey

(* C16: every successful search response carries X-Cache HIT or MISS, and  *)
(* every response whose payload is synthesized mock data carries           *)
(* X-Mock-Data, also when the mock payload is served from the cache.       *)
C16_MockDataIsMarked ==
    \A s \in Slots :
        (Answered(s) /\ resp[s].status = 200) =>
            /\ resp[s].xCache \in {"HIT", "MISS"}
            /\ PayloadIsMock(s) => resp[s].xMockData

----------------------------------------------------------------------------
(* Claims about cache expiry, checked under Spec *)

SearchKeys(st) == {k \in DOMAIN st : k[1] = "search"}

(* every stored response expires its TTL after it was made *)
StoredWithFixedTtl ==
    \A k \in SearchKeys(store) :
        /\ IsJson(store[k].value)
        /\ store[k].expiresAt = store[k].value.json.cachedAt + CacheTtlMs

(* a response answered from the cache was looked up before its TTL ran out *)
HitsAreFresh ==
    \A s \in Slots :
        (Answered(s) /\ resp[s].status = 200 /\ resp[s].xCache = "HIT") =>
            work[s].lookupAt < resp[s].body.cachedAt + CacheTtlMs

(* the handler's cache.get of slot s *)
Lookup(s) == pc[s] = "RateLimitingDone" /\ pc'[s] = "CacheLookup"

(* a get at or after put time + TTL returns nothing and removes the entry  *)
ExpiredIsMiss(s) ==
    LET key == work'[s].cacheKey
    IN  (Lookup(s) /\ Has(store, key) /\ store[key].expiresAt <= clock) =>
            /\ work'[s].cached = Null
            /\ ~Has(store', key)

(* C17: a cached search response is stored with a fixed TTL, 600 s for     *)
(* live results and 120 s for synthesized ones, and is never served once   *)
(* the TTL has elapsed: a get at or after put time + TTL returns absent    *)
(* and removes the entry, and the request is handled as a miss.            *)
C17_ExpiredNeverServed ==
    /\ [](StoredWithFixedTtl /\ HitsAreFresh)
    /\ [][\A s \in Slots : ExpiredIsMiss(s)]_vars

(* a request repeated exactly its TTL after the first answer was stored:   *)
(* the lookup found nothing and the entry is gone                          *)
C17_Witness ==
    /\ pc[1] = "CacheLookup"
    /\ prevOk # None
    /\ buildCacheKey(prevOk.request) = work[1].cacheKey
    /\ work[1].lookupAt = prevOk.body.cachedAt + CacheTtlMs
    /\ work[1].cached = Null
    /\ ~Has(store, work[1].cacheKey)

----------------------------------------------------------------------------
(* Claims about interleaved requests, checked under SpecRace *)

(* the validated request every request of the race carries *)
RaceRequest == safeParseBody(BaseBody).value

(* a complete response: all the normalized results and a time of caching *)
CompleteResponse(r) ==
    /\ DOMAIN r = {"results", "cachedAt"}
    /\ r.results = normalizePlaces(RacePlaces, RaceRequest)
    /\ r.cachedAt <= clock

(* what a search key holds is the JSON text of a complete response *)
HeldIsComplete ==
    \A k \in SearchKeys(store) :
        IsJson(store[k].value) /\ CompleteResponse(store[k].value.json)

(* every 200 answer, from the cache or not, is a complete response *)
AnswersAreComplete ==
    \A s \in Slots :
        (Answered(s) /\ resp[s].status = 200) => CompleteResponse(resp[s].body)

(* the handler's cache.put of slot s *)
Stores(s) == pc[s] = "Fetching" /\ pc'[s] = "CacheStore"

(* a search entry appears or changes only by the put of one request, and   *)
(* then holds that request's response whatever it held before              *)
LastWriteWins ==
    /\ \A s \in Slots :
          Stores(s) => store'[work'[s].cacheKey].value = JsonText(work'[s].response)
    /\ \A k \in SearchKeys(store') :
          (~Has(store, k) \/ store'[k] # store[k]) =>
              \E s \in Slots : Stores(s) /\ work'[s].cacheKey = k

----------------------------------------------------------------------------
(* Claims about normalizePlaces, checked under SpecNormalize *)

(* the places of the list that pass the cuisine filter, by position *)
Passing(places, req) == {i \in 1..Len(places) : matchesCuisine(places[i], req.cuisine)}

ScoreOf(places, req, i) == buildSearchResult(places[i], req).fit_score

(* where place i stands among the passing ones in descending score order,  *)
(* equal scores in input order                                             *)
RankOf(places, req, i) ==
    1 + Cardinality({j \in Passing(places, req) :
                        \/ ScoreOf(places, req, j) > ScoreOf(places, req, i)
                        \/ ScoreOf(places, req, j) = ScoreOf(places, req, i) /\ j < i})

(* C19: normalizePlaces returns the first min(limit, number passing the    *)
(* cuisine filter) of the passing places in descending fit_score order,    *)
(* places of equal score in their input order.                             *)
C19_SortedStableTruncated ==
    Returned =>
        LET req == safeParseBody(fnIn.body).value
            places == fnIn.places
            passing == Passing(places, req)
        IN  /\ Len(fnOut.returned) = Min(req.limit.n, Cardinality(passing))
            /\ \A i \in passing :
                  RankOf(places, req, i) <= Len(fnOut.returned) =>
                      fnOut.returned[RankOf(places, req, i)] = buildSearchResult(places[i], req)

(* three places of which two have equal scores and the best comes last,    *)
(* cut to two: the best first, then the earlier of the equal ones          *)
C19_Witness ==
    /\ Returned
    /\ fnIn.places = <<PlaceA2, PlaceA, PlaceC>>
    /\ fnIn.body.limit = Num(2)
    /\ Len(fnOut.returned) = 2
    /\ fnOut.returned[1].place_id = PlaceC.id
    /\ fnOut.returned[2].place_id = PlaceA2.id

----------------------------------------------------------------------------
(* Claims about the cuisine filter, checked under SpecCuisine *)

(* needle occurs in hay at some position, unit by unit *)
IsSubstring(needle, hay) ==
    \E start \in 1..(Len(hay) - Len(needle) + 1) :
        \A j \in 1..Len(needle) : hay[start + j - 1] = needle[j]

(* C20: the cuisine filter passes every place when the request's cuisine   *)
(* set is empty; otherwise it passes a place exactly when some keyword is  *)
(* a substring of the lowercased display name or of a lowercased category  *)
(* tag, so a place with no name and no tags never passes.                  *)
C20_CuisineFilter ==
    Returned =>
        LET keywords == safeParseBody(fnIn.body).value.cuisine
            place == fnIn.place
            inName(kw) == /\ place.name # None
                          /\ IsSubstring(kw, ToLowerCase(place.name.some))
            inTag(kw) == \E t \in 1..Len(place.types) :
                            IsSubstring(kw, ToLowerCase(place.types[t]))
            some == \E n \in 1..Len(keywords) : inName(keywords[n]) \/ inTag(keywords[n])
        IN  /\ keywords = <<>> => fnOut.returned = TRUE
            /\ keywords # <<>> => (fnOut.returned <=> some)
            /\ (keywords # <<>> /\ place.name = None /\ place.types = <<>>) =>
                  fnOut.returned = FALSE

(* a place without a name passes through its tag B, asked for as b after  *)
(* validation lowercased the keyword                                      *)
C20_Witness ==
    /\ Returned
    /\ fnIn.place.name = None
    /\ fnIn.place.types = <<WordUpperB>>
    /\ fnIn.body.cuisine = <<WordUpperB>>
    /\ fnOut.returned = TRUE

----------------------------------------------------------------------------
(* Claims about the fitness score, checked under SpecScore *)

(* rating 5, distance 0, the cheapest tier, open now *)
BestPlace(args) ==
    /\ args.rating = Num(50)
    /\ args.distance = 0
    /\ args.priceLevel = "PRICE_LEVEL_FREE"
    /\ args.openNow = "true"

C22_RatingComponent ==
    (Returned /\ IsNumber(fnIn.rating)) =>
        /\ fnOut.returned = Score([fnIn EXCEPT !.rating = Null]) - 240 + 8 * fnIn.rating.n
        /\ \A n \in 0..fnIn.rating.n :
              Score([fnIn EXCEPT !.rating = Num(n)]) <= fnOut.returned

----------------------------------------------------------------------------
(* Claims about distances, checked under SpecLocate *)

(* the score the place would get with no distance component: at a distance *)
(* of the whole radius                                                     *)
ScoreAtEdge(place, req) ==
    LET edge == Max(req.radius_m.n, 1)
    IN  buildSearchResult([place EXCEPT !.distance = Num(edge)], req).fit_score

(* C23: a place that has no coordinate is treated as located at the        *)
(* request origin: its result has distance_m = 0 and the full distance     *)
(* component, 0.3 of the score, for any radius; and haversineMeters(p, p)  *)
(* is 0 for every point p.                                                 *)
C23_NoCoordinateIsOrigin ==
    Returned =>
        LET req == safeParseBody(fnIn.body).value
        IN  /\ haversineMeters(req.lat, req.lng, req.lat, req.lng) = Num(0)
            /\ ~HasLocation(fnIn.place) =>
                  /\ fnOut.returned.distance_m = 0
                  /\ fnOut.returned.fit_score = ScoreAtEdge(fnIn.place, req) + 300
            /\ (HasLocation(fnIn.place) /\ fnIn.place.location.latitude = req.lat) =>
                  fnOut.returned.distance_m = 0

(* a place without a coordinate, asked for from the south pole with the    *)
(* smallest radius: distance 0, while a place 90 units north is 100 m away *)
C23_Witness ==
    /\ Returned
    /\ ~HasLocation(fnIn.place)
    /\ fnIn.body.lat = Num(-9000000)
    /\ fnIn.body.radius_m = Num(1)
    /\ fnOut.returned.distance_m = 0
    /\ buildSearchResult(PlacedAt(fnIn.place, Num(-9000000 + 90), fnIn.body.lng),
                         safeParseBody(fnIn.body).value).distance_m = 100

----------------------------------------------------------------------------
(* Claims about interleaved consumeToken calls, checked under SpecConsume *)

(* the bucket records the store holds *)
Buckets(st) == {k \in DOMAIN st : k[1] = "ratelimit"}

(* C25: after any sequence and any interleaving of consume calls on a key  *)
(* under a non-decreasing clock, each call sampling the clock before its   *)
(* store read and writing after it, the bucket persisted for the key has   *)
(* 0 <= tokens <= capacity.                                                *)
C25_TokensWithinBounds ==
    \A k \in Buckets(store) :
        /\ IsJson(store[k].value)
        /\ IsNumber(store[k].value.json.tokens)
        /\ store[k].value.json.tokens.n >= 0
        /\ store[k].value.json.tokens.n <= RATE_LIMIT_CAPACITY * RATE_LIMIT_INTERVAL_MS

----------------------------------------------------------------------------
(* Claims comparing consumeToken with createRateLimiter, checked under     *)
(* SpecLimiter                                                             *)

----------------------------------------------------------------------------
(* C27: a call made retryAfterSeconds or more after a denied call is       *)
(* allowed, whatever denied calls were made in between: each limiter       *)
(* allows every call made at or after the earliest time its denials        *)
(* promised since its last allowed call.                                   *)

KeptPromise(res) == res # NoRes /\ res.due # -1 /\ res.at >= res.due => res.allowed

C27_RetryHintSuffices ==
    \A k \in LimiterKeys : KeptPromise(libRes[k]) /\ KeptPromise(apiRes[k])

----------------------------------------------------------------------------
(* C28: every search response, a miss or a hit, holds at most as many      *)
(* results as the limit of the request it answers, for requests that share *)
(* location, radius, cuisine and budget and differ in limit.               *)

C28_AtMostLimitResults ==
    \A s \in Slots :
        pc[s] = "Responding" /\ resp[s].status = 200
            => Len(resp[s].body.results) <= work[s].request.limit.n

----------------------------------------------------------------------------
(* Claims about what a request does to the buckets, checked under          *)
(* SpecBurst                                                               *)

HeldTokens(record) == record.value.json.tokens.n

(* slot s is in the step of consumeToken that writes the bucket *)
WritesBucket(s) == pc[s] = "RateLimitingPut" /\ pc'[s] = "RateLimitingDone"

(* the write of an admitted request leaves its key's bucket one token below *)
(* what the refill gave it; the write of a denied request leaves it at     *)
(* what the refill gave it, which is no less than it held                  *)
LowersOneToken(s) ==
    LET key == getRateLimitKey(work[s].headers)
        level == TokenRefilled(work[s].existing, work[s].now).n
    IN  WritesBucket(s) =>
            IF work'[s].rate.allowed
            THEN HeldTokens(store'[BucketKey(key)]) = level - RATE_LIMIT_INTERVAL_MS
            ELSE /\ HeldTokens(store'[BucketKey(key)]) = level
                 /\ level >= work[s].existing.tokens.n

(* every other step leaves the bucket of key k as it is or, on reading it, *)
(* removes it when it has expired                                          *)
LowersNothing(k) ==
    \/ \E s \in Slots : WritesBucket(s) /\ getRateLimitKey(work[s].headers) = k
    \/ Found(store', BucketKey(k)) = Found(store, BucketKey(k))
    \/ /\ ~Has(store', BucketKey(k))
       /\ Expired(store, BucketKey(k), clock)
       /\ \E s \in Slots : /\ pc[s] = "RateLimiting"
                            /\ pc'[s] = "RateLimitingPut"
                            /\ getRateLimitKey(work[s].headers) = k

(* the bucket reads and writes behind an answer *)
BucketOpsOfAnswer(s) ==
    Answered(s) =>
        IF resp[s].status = 400
        THEN ops[s].bucketGet = 0 /\ ops[s].bucketPut = 0
        ELSE ops[s].bucketGet = 1 /\ ops[s].bucketPut = 1

(* C29: every request that passes validation and is admitted by the rate   *)
(* limiter lowers its key's bucket by exactly one token, whatever happens  *)
(* next (cache hit, mock response, upstream success or upstream failure);  *)
(* a request that fails validation or is denied lowers no bucket.          *)
C29_AdmittedRequestCostsOneToken ==
    /\ [](\A s \in Slots : BucketOpsOfAnswer(s))
    /\ [][/\ \A s \in Slots : LowersOneToken(s)
          /\ \A k \in RateKeys : LowersNothing(k)]_vars

(* the client's third request, answered with the upstream's error after    *)
(* two admitted ones, with 7 tokens left in the bucket                     *)
C29_Witness ==
    /\ Answered(1)
    /\ nreq = 3
    /\ resp[1].status = 403
    /\ served[BurstKey].admitted = 3
    /\ HeldTokens(store[BucketKey(BurstKey)]) = 7 * RATE_LIMIT_INTERVAL_MS

----------------------------------------------------------------------------
(* Claims about the keys of the store, checked under SpecClients           *)

(* slot s takes a step of consumeToken, or a step of the handler that gets *)
(* or puts a search entry                                                  *)
ConsumeStep(s) == pc[s] \in {"RateLimiting", "RateLimitingPut"} /\ pc'[s] # pc[s]

CacheStep(s) ==
    pc[s] \in {"RateLimitingDone", "CacheLookup", "Fetching"} /\ pc'[s] # pc[s]

SameRecord(x) == Found(store', x) = Found(store, x)

KeysInvolved == DOMAIN store \cup DOMAIN store'

(* consume(k1) changes no record but the bucket of k1, and a step that     *)
(* gets or puts a search entry changes no bucket                           *)
KeysIndependent(s) ==
    /\ ConsumeStep(s) =>
          \A x \in KeysInvolved \ {BucketKey(getRateLimitKey(work[s].headers))} :
              SameRecord(x)
    /\ CacheStep(s) => \A x \in Buckets(store) \cup Buckets(store') : SameRecord(x)

(* every record is of the kind its key says: a bucket under 'ratelimit:',  *)
(* a response under 'search:'                                              *)
RecordsOfTheirKind ==
    \A x \in DOMAIN store :
        /\ x[1] \in {"ratelimit", "search"}
        /\ IsJson(store[x].value)
        /\ DOMAIN store[x].value.json =
              IF x[1] = "ratelimit" THEN {"tokens", "updatedAt"} ELSE {"results", "cachedAt"}

(* a client is denied only after the limiter admitted a bucketful of its   *)
(* own requests since its bucket was new                                   *)
DeniedOnOwnAccount(s) ==
    Answered(s) /\ resp[s].status = 429 =>
        served[getRateLimitKey(work[s].headers)].admitted >= RATE_LIMIT_CAPACITY

(* C30: buckets of distinct rate-limit keys are independent and never      *)
(* collide with cache entries: consume(k1) leaves the bucket of every      *)
(* other key and every 'search:' entry unchanged, a cache put leaves every *)
(* 'ratelimit:' bucket unchanged, and exhausting one client's budget never *)
(* causes a denial for another client.                                     *)
C30_KeysIndependent ==
    /\ [](RecordsOfTheirKind /\ \A s \in Slots : DeniedOnOwnAccount(s))
    /\ [][\A s \in Slots : KeysIndependent(s)]_vars

(* the client without headers is answered 200 on its first request, after  *)
(* the team's client has been admitted ten times and then denied, with     *)
(* both buckets and a search entry in the store                            *)
C30_Witness ==
    /\ Answered(1)
    /\ resp[1].status = 200
    /\ getRateLimitKey(work[1].headers) = <<"ip", "anonymous">>
    /\ served[<<"ip", "anonymous">>].admitted = 1
    /\ served[<<"team", "a">>].admitted = RATE_LIMIT_CAPACITY
    /\ served[<<"team", "a">>].rejected = 1
    /\ Cardinality(Buckets(store)) = 2
    /\ \E x \in DOMAIN store : x[1] = "search"

----------------------------------------------------------------------------
(* Claims about the expiry of idle buckets, checked under SpecIdle         *)

(* C31: idle expiry of a bucket is unobservable: with bucket TTL 120 s and *)
(* interval 60 s, on one non-decreasing clock, consume returns the same    *)
(* allowed and retryAfterSeconds against the expiring in-memory store as   *)
(* against a store that never expires entries, and leaves the same bucket. *)
C31_ExpiryUnobservable ==
    \A k \in LimiterKeys :
        libRes[k] # NoRes =>
            /\ libRes[k].allowed = apiRes[k].allowed
            /\ libRes[k].retryAfterSeconds = apiRes[k].retryAfterSeconds
            /\ libRes[k].record.value = apiRes[k].record.value

(* a call that found its bucket expired in the cache and still there in    *)
(* the other store, right after a denied call                              *)
C31_Witness ==
    \E k \in LimiterKeys :
        /\ libRes[k] # NoRes
        /\ libRes[k].found # NoRes
        /\ libRes[k].existing = Null
        /\ apiRes[k].existing # Null
        /\ libRes[k].allowed
        /\ prevRes[k].lib # NoRes
        /\ ~prevRes[k].lib.allowed

----------------------------------------------------------------------------
(* C32: every synthesized result lies within the requested search radius:  *)
(* for any valid radius_m, below 100 too, and any index, the distance of a *)
(* mock result is at most radius_m.                                        *)
C32_MockWithinRadius ==
    Returned =>
        \A i \in 1..Len(fnOut.returned.results) :
            fnOut.returned.results[i].distance_m <= safeParseBody(fnIn).value.radius_m.n

----------------------------------------------------------------------------
(* Claims about the web client, checked under SpecWeb                      *)

InFlight == {s \in Slots : pc[s] = "Mutating"}

(* C33: the web client has at most one search request in flight at any     *)
(* time, also when a second submission arrives while the first awaits the  *)
(* geolocation lookup: a mutation is started only when none is pending.    *)
C33_OneSearchInFlight == Cardinality(InFlight) <= 1

====
